---- MODULE Spec2Model ----
(***************************************************************************)
(* A model of numpywren's queue-driven executor (job_runner.py) and of its *)
(* sharded matrix store (matrix.py).                                       *)
(*                                                                         *)
(* Spec        the RunLoop driver: WorkerLoops, LeaseRenewers, the         *)
(*             ProgramWatchdog, the queues and the passage of time.        *)
(* SpecMatrix  BigMatrix / BigSymmetricMatrix block operations on an       *)
(*             object store.                                               *)
(* SpecFair    Spec with the watchdog scheduled fairly.                    *)
(* SpecView    block operations through BigMatrixView.                     *)
(* SpecCache   the LRUCache shared by the workers.                         *)
(* SpecKey     storage keys of block indices.                              *)
(* SpecSymmetrize  canonical block indices of a BigSymmetricMatrix.        *)
(* SpecStore   puts with no_overwrite and reads of stored objects.         *)
(* SpecSubmatrix  shapes of the views made by submatrix.                   *)
(***************************************************************************)
EXTENDS Integers, Sequences, FiniteSets, TLC

\* ------------------------------------------------------------------------
\* Bounds of the model
\* ------------------------------------------------------------------------
\* longest chain of program counters one run() may follow
MaxChain == 2
\* receive_message calls that return a message (receipt handles handed out)
MaxDeliveries == 2

\* the WorkerLoops started by lambdapack_run (pipeline_width of them)
Workers == {"w1", "w2"}

\* the largest capacity an LRUCache of the model is made with
MaxItems == 2

\* the number of gets that hit and puts made on one cache
MaxOps == 5

\* ------------------------------------------------------------------------
\* The Program consumed by the executor (an external collaborator)
\* ------------------------------------------------------------------------
\* program.queue_urls: lowest priority first, highest priority last
queue_urls == <<"q_low", "q_high">>

\* program.inst_blocks: program counter -> number of instructions of its block
inst_blocks == (1 :> 2) @@ (5 :> 1)

PCs == DOMAIN inst_blocks

\* the program's graph: the counter that follows each counter
next_of == (1 :> 5) @@ (5 :> 1)

\* lp.EC
EC_RUNNING == "RUNNING"
EC_SUCCESS == "SUCCESS"
EC_EXCEPTION == "EXCEPTION"

\* the lease change_message_visibility asks for, in seconds
VisibilityTimeout == 30

\* a renewer that naps as long as the lease it asks for
RenewSleepAsLong == VisibilityTimeout

\* the renewer's asyncio.sleep between two extensions, in seconds
RenewSleep == 10

\* the messages initially waiting in the queues
Msgs == {1, 2}
Handles == 1..MaxDeliveries

\* the queue a message waits in, and its body (a decimal string, as digits)
MsgQueue(m) == queue_urls[((m - 1) % Len(queue_urls)) + 1]
MsgBody(m) == IF m % 2 = 1 THEN <<1>> ELSE <<5>>

\* int(msg["Body"])
RECURSIVE ParseInt(_)
ParseInt(digits) ==
    IF digits = <<>> THEN 0
    ELSE 10 * ParseInt(SubSeq(digits, 1, Len(digits) - 1)) + digits[Len(digits)]

\* position of a queue in queue_urls: a higher position is a higher priority
Priority(q) == CHOOSE i \in DOMAIN queue_urls : queue_urls[i] = q

\* the queues asked in the order of queue_urls (the [::-1] left out)
PollOrderForward == queue_urls

\* queue_urls[::-1], the order in which one poll cycle asks the queues
PollOrder == [i \in DOMAIN queue_urls |-> queue_urls[Len(queue_urls) + 1 - i]]

\* traceback.format_exc() inside an except block
FormatExc == "Traceback (most recent call last)"

\* the instruction objects of the program: (pc, position in the block)
Instrs == UNION {{<<pc, i>> : i \in 1..inst_blocks[pc]} : pc \in PCs}

\* `instr.executor = computer; instr.cache = self.cache` before the await of
\* an instruction, `instr.cache = None; instr.executor = None` after it
Refs == [executor |-> "computer", cache |-> "cache"]
NoRefs == [executor |-> "None", cache |-> "None"]

\* the instruction objects after instruction x was handed its references,
\* and after it gave them back
Take(refs, x) == [refs EXCEPT ![x] = Refs]
Release(refs, x) == [refs EXCEPT ![x] = NoRefs]

VARIABLES
    status,       \* what program.program_status() returns
    loopStopped,  \* loop.stop() was called: run_forever has returned
    msgState,     \* per message: "visible", "inflight" or "deleted"
    lease,        \* per message: seconds of visibility timeout left
    curHandle,    \* per message: the receipt handle of its latest delivery
    nextHandle,   \* the next receipt handle SQS hands out
    hMsg,         \* per receipt handle: the message it was handed out for
    lock,         \* per receipt handle: the asyncio.Lock made for that message
    rst,          \* per receipt handle: where its reset_msg_visibility task is
    rsleep,       \* per receipt handle: seconds its asyncio.sleep has left
    extFailed,    \* per receipt handle: a change_message_visibility call failed
    wpc,          \* per worker: where lambdapack_run_async is suspended
    wqi,          \* per worker: position in PollOrder of the queue being asked
    wh,           \* per worker: receipt handle of the message it holds (0: none)
    pcs,          \* per worker: the worklist of LambdaPackExecutor.run
    pci,          \* per worker: position in pcs of the counter being run
    ii,           \* per worker: the instruction of the block being awaited
    trace,        \* per worker: what the current run() has called, in order
    polledEmpty,  \* per worker: queues that returned no message this cycle
    deletedBy,    \* per message: the worker whose delete_message removed it
    instr_refs,   \* per instruction of the program: its executor and cache
    matrix,       \* the matrix object: class, shape, shard_sizes, lambdav, parent_fn
    store,        \* the bucket: storage key -> stored object, for the keys present
    lastPut,      \* per block index: the block of the last successful put_block
    last,         \* the last matrix call: its arguments, outcome and result
    max_items,    \* LRUCache.max_items
    cache,        \* LRUCache.cache: key -> value, for the keys present
    key_order,    \* LRUCache.key_order: the keys, most recently used first
    accesses,     \* the gets that hit and the puts made on the cache, in order
    lastCache     \* the last cache call: its arguments and outcome

runnerVars == <<status, loopStopped, msgState, lease, curHandle, nextHandle,
                hMsg, lock, rst, rsleep, extFailed, wpc, wqi, wh, pcs, pci, ii,
                trace, polledEmpty, deletedBy, instr_refs>>

matrixVars == <<matrix, store, lastPut, last>>

cacheVars == <<max_items, cache, key_order, accesses, lastCache>>

vars == <<runnerVars, matrixVars, cacheVars>>

\* ------------------------------------------------------------------------
\* lambdapack_run: the state right after the tasks were created
\* ------------------------------------------------------------------------
RunnerInit ==
    /\ status = EC_RUNNING
    /\ loopStopped = FALSE
    /\ msgState = [m \in Msgs |-> "visible"]
    /\ lease = [m \in Msgs |-> 0]
    /\ curHandle = [m \in Msgs |-> 0]
    /\ nextHandle = 1
    /\ hMsg = [h \in Handles |-> 0]
    /\ lock = [h \in Handles |-> "none"]
    /\ rst = [h \in Handles |-> "none"]
    /\ rsleep = [h \in Handles |-> 0]
    /\ extFailed = [h \in Handles |-> FALSE]
    /\ wpc = [w \in Workers |-> "sleep0"]
    /\ wqi = [w \in Workers |-> 1]
    /\ wh = [w \in Workers |-> 0]
    /\ pcs = [w \in Workers |-> <<>>]
    /\ pci = [w \in Workers |-> 0]
    /\ ii = [w \in Workers |-> 0]
    /\ trace = [w \in Workers |-> <<>>]
    /\ polledEmpty = [w \in Workers |-> {}]
    /\ deletedBy = [m \in Msgs |-> "nobody"]
    /\ instr_refs = [x \in Instrs |-> NoRefs]


\* ------------------------------------------------------------------------
\* matrix.py: blocks, block addressing and the bucket
\* ------------------------------------------------------------------------
\* distinct contents a test block may have
NumSeeds == 2

\* The matrices of the model, as their constructors leave them:
\* 3x3 elements in shards of 2x2, so that the last block of each axis is an
\* undersized remainder block.
Configs ==
    {[cls |-> "BigMatrix", shape |-> <<3, 3>>, shard_sizes |-> <<2, 2>>,
      dtype |-> "float64", lambdav |-> 0, parent_fn |-> FALSE, write_header |-> TRUE],
     [cls |-> "BigMatrix", shape |-> <<3, 3>>, shard_sizes |-> <<2, 2>>,
      dtype |-> "float64", lambdav |-> 0, parent_fn |-> TRUE, write_header |-> FALSE],
     [cls |-> "BigSymmetricMatrix", shape |-> <<3, 3>>, shard_sizes |-> <<2, 2>>,
      dtype |-> "float64", lambdav |-> 0, parent_fn |-> FALSE, write_header |-> TRUE],
     [cls |-> "BigSymmetricMatrix", shape |-> <<3, 3>>, shard_sizes |-> <<2, 2>>,
      dtype |-> "float64", lambdav |-> 1, parent_fn |-> FALSE, write_header |-> FALSE]}

\* the matrix of the runs in which no matrix call is made
NoMatrix == CHOOSE c \in Configs : c.cls = "BigMatrix" /\ ~c.parent_fn

CeilDiv(a, b) == (a + b - 1) \div b

Axes == 1..2

\* the valid block indices: 0 .. ceil(shape[i] / shard_sizes[i]) - 1 per axis
ValidIdx(m, idx) ==
    \A a \in Axes : 0 <= idx[a] /\ idx[a] < CeilDiv(m.shape[a], m.shard_sizes[a])

\* the block indices the calls of the model are made with: the valid ones and
\* one past the end of each axis
Idxs == {<<i, j>> : i \in 0..1, j \in 0..1} \cup {<<0, 2>>, <<2, 0>>}

\* A block in memory (a numpy array): its dtype and its rows.
Shape(b) == <<Len(b.rows), Len(b.rows[1])>>

\* block.T
Transpose(b) ==
    [dtype |-> b.dtype,
     rows |-> [j \in 1..Len(b.rows[1]) |-> [i \in 1..Len(b.rows) |-> b.rows[i][j]]]]

\* block.astype(dtype): the values of the model are exact in every dtype
AsType(b, dtype) == [dtype |-> dtype, rows |-> b.rows]

\* numpy equality of two arrays: same shape, same values
BlockEq(a, b) == a.rows = b.rows

\* np.save: the array's descr and shape, and its elements in row-major order
Save(b) ==
    [descr |-> b.dtype, shape |-> Shape(b),
     flat |-> [k \in 1..(Len(b.rows) * Len(b.rows[1])) |->
                 b.rows[((k - 1) \div Len(b.rows[1])) + 1][((k - 1) % Len(b.rows[1])) + 1]]]

\* np.load
Load(obj) ==
    [dtype |-> obj.descr,
     rows |-> [i \in 1..obj.shape[1] |-> [j \in 1..obj.shape[2] |->
                 obj.flat[(i - 1) * obj.shape[2] + j]]]]

\* the blocks handed to put_block: a shape, and contents that tell every
\* element, and the block from its transpose, apart
TestBlock(shape, seed) ==
    [dtype |-> IF seed % 2 = 1 THEN "float64" ELSE "float32",
     rows |-> [i \in 1..shape[1] |-> [j \in 1..shape[2] |-> 100 * seed + 10 * i + j]]]

\* a translation that reads the first element of the index on every axis
BlockIdxToRealIdxFirstElt(m, idx) ==
    [a \in Axes |->
        LET start == idx[1] * m.shard_sizes[a]
            end == IF start + m.shard_sizes[a] < m.shape[a]
                   THEN start + m.shard_sizes[a] ELSE m.shape[a]
        IN <<start, end>>]

\* BigMatrix.__block_idx_to_real_idx__
BlockIdxToRealIdx(m, idx) ==
    [a \in Axes |->
        LET start == idx[a] * m.shard_sizes[a]
            end == IF start + m.shard_sizes[a] < m.shape[a]
                   THEN start + m.shard_sizes[a] ELSE m.shape[a]
        IN <<start, end>>]

\* "{0}".format(n) of an integer: its decimal digits
DigitChars == <<"0", "1", "2", "3", "4", "5", "6", "7", "8", "9">>

RECURSIVE Str(_)
Str(n) ==
    IF n < 0 THEN <<"-">> \o Str(0 - n)
    ELSE IF n < 10 THEN <<DigitChars[n + 1]>>
    ELSE Str(n \div 10) \o <<DigitChars[(n % 10) + 1]>>

\* self.key_base: os.path.join(prefix, key), the same for every object of
\* the matrix
key_base == <<"p", "/", "k">>

\* os.path.join of two relative paths
PathJoin(a, b) == a \o <<"/">> \o b

\* "{0}_{1}_{2}_".format(sidx, eidx, shard_size)
AxisKey(sidx, eidx, shard_size) ==
    Str(sidx) \o <<"_">> \o Str(eidx) \o <<"_">> \o Str(shard_size) \o <<"_">>

\* a key built from the first axis only
GetMatrixShardKeyFirstAxis(m, real_idxs) ==
    PathJoin(key_base, AxisKey(real_idxs[1][1], real_idxs[1][2], m.shard_sizes[1]))

\* BigMatrix.__get_matrix_shard_key__: "{start}_{end}_{shard_size}_" per axis,
\* joined under the key_base of the matrix
GetMatrixShardKey(m, real_idxs) ==
    PathJoin(key_base,
             AxisKey(real_idxs[1][1], real_idxs[1][2], m.shard_sizes[1])
             \o AxisKey(real_idxs[2][1], real_idxs[2][2], m.shard_sizes[2]))

\* the key of the header object, and the object __write_header__ puts there
HeaderKey == PathJoin(key_base, <<"h", "e", "a", "d", "e", "r">>)
Header(m) == [descr |-> "json", shape |-> m.shape, flat |-> m.shard_sizes]

\* BigMatrix.__shard_idx_to_key__
ShardIdxToKey(m, idx) == GetMatrixShardKey(m, BlockIdxToRealIdx(m, idx))

\* `tuple([e - s for s,e in real_idxs])`
CurrentShape(m, idx) ==
    LET r == BlockIdxToRealIdx(m, idx) IN <<r[1][2] - r[1][1], r[2][2] - r[2][1]>>

\* what the registered parent_fn(matrix, *block_idx) produces: a block of the
\* extent of the index, told apart from every block put
ParentFn(m, idx) ==
    [dtype |-> "float64",
     rows |-> [i \in 1..CurrentShape(m, idx)[1] |-> [j \in 1..CurrentShape(m, idx)[2] |->
                 1000 + 100 * idx[1] + 10 * idx[2] + i + j]]]

\* key_exists_async: is there an object under the key
KeyExists(key) == key \in DOMAIN store

\* __s3_key_to_byte_io__ followed by np.load
Fetch(key) == Load(store[key])

\* __save_matrix_to_s3__: the bucket after the put_object
SaveMatrixToS3(b, key) ==
    [k \in DOMAIN store \cup {key} |-> IF k = key THEN Save(b) ELSE store[k]]

\* outcomes of a call
Raised == [how |-> "raised", value |-> <<>>]
Returned(v) == [how |-> "returned", value |-> <<v>>]

\* a get_block_async that asks the producer whenever one is registered
BigMatrixGetBlockProducerFirst(m, idx) ==
    LET key == ShardIdxToKey(m, idx)
    IN IF ~KeyExists(key) /\ ~m.parent_fn THEN Raised
       ELSE IF m.parent_fn THEN Returned(ParentFn(m, idx))
       ELSE Returned(Fetch(key))

\* BigMatrix.get_block_async
BigMatrixGetBlock(m, idx) ==
    LET key == ShardIdxToKey(m, idx)
    IN IF ~KeyExists(key) /\ ~m.parent_fn THEN Raised
       ELSE IF ~KeyExists(key) THEN Returned(ParentFn(m, idx))
       ELSE Returned(Fetch(key))

\* BigMatrix.put_block_async (no_overwrite=False): the outcome and the bucket
BigMatrixPutBlock(m, block, idx) ==
    LET key == ShardIdxToKey(m, idx)
    IN IF Shape(block) # CurrentShape(m, idx)
       THEN [how |-> "raised", store |-> store]
       ELSE [how |-> "returned", store |-> SaveMatrixToS3(block, key)]

\* the most get_object failures in a row a read of the model meets
MaxFails == 7

\* max_n_tries of __s3_key_to_byte_io__
max_n_tries == 5

\* BigMatrix.__s3_key_to_byte_io__ on a stored key whose first `fails`
\* get_object calls raise. The loop is entered with n_tries = 0; a get_object
\* that raises lands in `except Exception as e: raise`, which re-raises at
\* once, so the `n_tries += 1` behind it never runs and the loop has no second
\* pass. `attempts` counts the get_object calls made.
S3KeyToByteIO(key, fails) ==
    LET n_tries == 0
    IN IF ~(n_tries <= max_n_tries)
       THEN [how |-> "raised", value |-> <<>>, attempts |-> 0]
       ELSE IF fails > n_tries
       THEN [how |-> "raised", value |-> <<>>, attempts |-> n_tries + 1]
       ELSE [how |-> "returned", value |-> <<store[key]>>, attempts |-> n_tries + 1]

\* largest of two numbers
Max2(a, b) == IF a >= b THEN a ELSE b

\* numpy broadcasting of two 2-D shapes: each axis equal, or 1 on one side
Broadcastable(a, b) ==
    /\ Len(a.rows) = Len(b.rows) \/ Len(a.rows) = 1 \/ Len(b.rows) = 1
    /\ Len(a.rows[1]) = Len(b.rows[1]) \/ Len(a.rows[1]) = 1 \/ Len(b.rows[1]) = 1

\* np.allclose(a, b) on broadcastable arrays: every pair of elements within
\* 1e-8 + 1e-5 * |b|; the elements of the model are integers below 1000, which
\* are that close only when equal
AllClose(a, b) ==
    LET At(x, i, j) == x.rows[IF Len(x.rows) = 1 THEN 1 ELSE i]
                             [IF Len(x.rows[1]) = 1 THEN 1 ELSE j]
    IN \A i \in 1..Max2(Len(a.rows), Len(b.rows)) :
          \A j \in 1..Max2(Len(a.rows[1]), Len(b.rows[1])) :
             At(a, i, j) = At(b, i, j)

\* BigMatrix.put_block_async(block, loop, *idx, no_overwrite=True): the
\* outcome, the exception raised, and the bucket
BigMatrixPutBlockNoOverwrite(m, block, idx) ==
    LET key == ShardIdxToKey(m, idx)
        exists == KeyExists(key)
        old_block == BigMatrixGetBlock(m, idx)
        put == BigMatrixPutBlock(m, block, idx)
    IN IF exists /\ old_block.how = "raised"
       THEN [how |-> "raised", error |-> "Exception", store |-> store]
       ELSE IF exists /\ ~Broadcastable(old_block.value[1], block)
       THEN [how |-> "raised", error |-> "ValueError", store |-> store]
       ELSE IF exists /\ ~AllClose(old_block.value[1], block)
       THEN [how |-> "raised", error |-> "AssertionError", store |-> store]
       ELSE [how |-> put.how,
             error |-> IF put.how = "raised" THEN "Exception" ELSE "",
             store |-> put.store]

\* BigSymmetricMatrix.put_block_async(block, loop, *idx, no_overwrite=True):
\* the arguments of key_exists_async(self.bucket, key, loop) are evaluated
\* while the local `key`, assigned only at the end of the method, is unbound
SymmetricPutBlockNoOverwrite(m, block, idx) ==
    [how |-> "raised", error |-> "UnboundLocalError", store |-> store]

\* ------------------------------------------------------------------------
\* matrix.py, matrix_utils.py: listing and deleting blocks
\* ------------------------------------------------------------------------
\* a _blocks that leaves out the undersized block at the end of an axis
BlocksAxisWhole(m, a) ==
    LET n == CeilDiv(m.shape[a], m.shard_sizes[a])
        raw == [k \in 1..n |-> <<(k - 1) * m.shard_sizes[a], k * m.shard_sizes[a]>>]
    IN IF raw[n][2] > m.shape[a] THEN SubSeq(raw, 1, n - 1) ELSE raw

\* BigMatrix._blocks: the (start, end) ranges of one axis. A last range that
\* overshoots the axis is popped and the remainder range appended (the axes
\* of the model are at least one shard long, so the pop leaves a range).
BlocksAxis(m, a) ==
    LET n == CeilDiv(m.shape[a], m.shard_sizes[a])
        raw == [k \in 1..n |-> <<(k - 1) * m.shard_sizes[a], k * m.shard_sizes[a]>>]
        popped == IF raw[n][2] > m.shape[a] THEN SubSeq(raw, 1, n - 1) ELSE raw
    IN IF popped[Len(popped)][2] < m.shape[a]
       THEN Append(popped, <<popped[Len(popped)][2], m.shape[a]>>)
       ELSE popped

\* BigMatrix._blocks(axis=a) as a call: the ranges of every axis are built
\* before the axis is picked; on an axis shorter than one shard the only range
\* overshoots and is popped, and `blocks_axis[-1]` of the empty list raises
\* IndexError
BlocksAxisCall(m, a) ==
    IF \E i \in Axes : m.shape[i] < m.shard_sizes[i]
    THEN Raised
    ELSE Returned(BlocksAxis(m, a))

\* itertools.product of two lists: the pairs, the first list slowest
Product(xs, ys) ==
    [k \in 1..(Len(xs) * Len(ys)) |->
        <<xs[((k - 1) \div Len(ys)) + 1], ys[((k - 1) % Len(ys)) + 1]>>]

\* `x in list` and set(list)
ToSet(sq) == {sq[i] : i \in DOMAIN sq}

\* sorted(list(set(...))) of index pairs
RECURSIVE SortedIdxs(_)
SortedIdxs(S) ==
    IF S = {} THEN <<>>
    ELSE LET least == CHOOSE x \in S : \A y \in S :
                         x[1] < y[1] \/ (x[1] = y[1] /\ x[2] <= y[2])
         IN <<least>> \o SortedIdxs(S \ {least})

\* reversed(sequence)
Reversed(sq) == [k \in DOMAIN sq |-> sq[Len(sq) + 1 - k]]

\* a canonical form that keeps the index whose first element is not greater
\* than its last
SymmetrizeIdxUpper(idx) ==
    IF idx[1] <= idx[Len(idx)] THEN idx ELSE Reversed(idx)

\* BigSymmetricMatrix._symmetrize_idx: the index itself if its first element
\* is greater than its last, the reversed index otherwise
SymmetrizeIdx(idx) ==
    IF idx[1] > idx[Len(idx)] THEN idx ELSE Reversed(idx)

\* _block_idxs(axis=None) of BigMatrix, and of BigSymmetricMatrix (the
\* symmetrized indices, sorted)
BlockIdxs(m) ==
    LET all == Product([k \in 1..Len(BlocksAxis(m, 1)) |-> k - 1],
                       [k \in 1..Len(BlocksAxis(m, 2)) |-> k - 1])
    IN IF m.cls = "BigSymmetricMatrix"
       THEN SortedIdxs({SymmetrizeIdx(all[k]) : k \in DOMAIN all})
       ELSE all

\* _blocks(axis=None) of BigMatrix, and of BigSymmetricMatrix (the real
\* ranges of its block indices)
Blocks(m) ==
    IF m.cls = "BigSymmetricMatrix"
    THEN [k \in DOMAIN BlockIdxs(m) |->
            LET r == BlockIdxToRealIdx(m, BlockIdxs(m)[k]) IN <<r[1], r[2]>>]
    ELSE Product(BlocksAxis(m, 1), BlocksAxis(m, 2))

\* str.split(sep) and str.strip(chars) for a one-character sep
RECURSIVE Split(_, _)
Split(sq, sep) ==
    IF \A i \in DOMAIN sq : sq[i] # sep THEN <<sq>>
    ELSE LET at == CHOOSE i \in DOMAIN sq :
                      sq[i] = sep /\ \A j \in 1..(i - 1) : sq[j] # sep
         IN <<SubSeq(sq, 1, at - 1)>> \o Split(SubSeq(sq, at + 1, Len(sq)), sep)

RECURSIVE Strip(_, _)
Strip(sq, c) ==
    IF sq = <<>> THEN sq
    ELSE IF sq[1] = c THEN Strip(Tail(sq), c)
    ELSE IF sq[Len(sq)] = c THEN Strip(SubSeq(sq, 1, Len(sq) - 1), c)
    ELSE sq

\* int(s) of a string of decimal digits; anything else is a ValueError
IsNumeral(sq) ==
    sq # <<>> /\ \A i \in DOMAIN sq : \E d \in DOMAIN DigitChars : DigitChars[d] = sq[i]

RECURSIVE IntOf(_)
IntOf(sq) ==
    IF sq = <<>> THEN 0
    ELSE 10 * IntOf(SubSeq(sq, 1, Len(sq) - 1))
         + (CHOOSE d \in 0..9 : DigitChars[d + 1] = sq[Len(sq)])

\* block_key_to_block: None for the header, the (start, end) ranges otherwise;
\* a key that does not split into triples of integers raises
BlockKeyToBlock(key) ==
    LET parts == Split(key, "/")
        block_key == parts[Len(parts)]
        blocks_split == Split(Strip(block_key, "_"), "_")
    IN IF block_key = <<"h", "e", "a", "d", "e", "r">>
       THEN [how |-> "returned", value |-> <<>>]
       ELSE IF Len(blocks_split) % 3 # 0 \/ \E i \in DOMAIN blocks_split : ~IsNumeral(blocks_split[i])
       THEN Raised
       ELSE Returned([a \in 1..(Len(blocks_split) \div 3) |->
                        <<IntOf(blocks_split[3 * a - 2]), IntOf(blocks_split[3 * a - 1])>>])

\* `sq` starts with `prefix`
StartsWith(sq, prefix) ==
    Len(sq) >= Len(prefix) /\ SubSeq(sq, 1, Len(prefix)) = prefix

\* list_all_keys(bucket, prefix): the keys under the prefix; the response of
\* list_objects has no 'Contents' when there is none, and the lookup raises
ListAllKeys(prefix) ==
    LET keys == {k \in DOMAIN store : StartsWith(k, prefix)}
    IN IF keys = {} THEN [how |-> "raised", value |-> {}]
       ELSE [how |-> "returned", value |-> keys]

\* BigMatrix.blocks_exist: the ranges of the keys listed, None left out
BlocksExist(m) ==
    LET listed == ListAllKeys(key_base)
        parsed == [k \in listed.value |-> BlockKeyToBlock(k)]
    IN IF listed.how = "raised" \/ \E k \in listed.value : parsed[k].how = "raised"
       THEN [how |-> "raised", value |-> {}]
       ELSE [how |-> "returned",
             value |-> {parsed[k].value[1] : k \in {x \in listed.value : parsed[x].value # <<>>}}]

\* BigMatrix.block_idxs_exist: the indices whose range is among blocks_exist,
\* in the order of block_idxs
BlockIdxsExist(m) ==
    LET exist == BlocksExist(m)
        all_blocks == Blocks(m)
        all_block_idxs == BlockIdxs(m)
        at == {i \in DOMAIN all_blocks : all_blocks[i] \in exist.value}
    IN IF exist.how = "raised" THEN [how |-> "raised", value |-> <<>>]
       ELSE [how |-> "returned",
             value |-> SelectSeq(all_block_idxs, LAMBDA x :
                          \E i \in at : all_block_idxs[i] = x)]

\* BigMatrix.block_idxs_not_exist: the symmetric difference of block_idxs and
\* block_idxs_exist, as a set (a block index is never a falsy tuple)
BlockIdxsNotExist(m) ==
    LET exist == BlockIdxsExist(m)
        E == ToSet(exist.value)
        A == ToSet(BlockIdxs(m))
    IN IF exist.how = "raised" THEN [how |-> "raised", value |-> {}]
       ELSE [how |-> "returned", value |-> (E \ A) \cup (A \ E)]

\* BigMatrix.delete_block_async: `resp = client.delete_object(...)` makes the
\* coroutine of the request and never awaits it: no request is sent, the
\* bucket `st` stays as it is, and the call returns
DeleteBlockAsync(m, st, idx) ==
    [how |-> "returned", store |-> st]

\* BigMatrix.free: delete_block for every index of block_idxs_exist, in order
RECURSIVE DeleteEach(_, _, _)
DeleteEach(m, st, idxs) ==
    IF idxs = <<>> THEN st
    ELSE DeleteEach(m, DeleteBlockAsync(m, st, idxs[1]).store, Tail(idxs))

FreeAll(m) ==
    LET exist == BlockIdxsExist(m)
    IN IF exist.how = "raised"
       THEN [how |-> "raised", store |-> store]
       ELSE [how |-> "returned", store |-> DeleteEach(m, store, exist.value)]

\* `len(list(set(block_idx))) == 1`
IsDiagonal(idx) == Cardinality({idx[a] : a \in Axes}) = 1

\* `X_block += lambdav`: the constant added to every element
AddToAll(b, lambdav) ==
    [dtype |-> b.dtype,
     rows |-> [i \in 1..Len(b.rows) |-> [j \in 1..Len(b.rows[1]) |-> b.rows[i][j] + lambdav]]]

\* `X_block[np.diag_indices(X_block.shape[0])] += lambdav`
AddToDiagonal(b, lambdav) ==
    [dtype |-> b.dtype,
     rows |-> [i \in 1..Len(b.rows) |-> [j \in 1..Len(b.rows[1]) |->
                 IF i = j THEN b.rows[i][j] + lambdav ELSE b.rows[i][j]]]]

\* `np.load(bio).astype(self.dtype, loop)`: the event loop lands in the
\* `order` parameter of astype. A numpy that still converts an order that is
\* not a string takes it (with a deprecation warning) and casts; a numpy that
\* insists on a string raises TypeError.
AsTypeWithOrder(b, dtype) == {Returned(AsType(b, dtype)), Raised}

\* BigSymmetricMatrix.get_block_async: the outcomes the call can have
SymmetricGetBlock(m, idx) ==
    LET block_idx_sym == SymmetrizeIdx(idx)
        flipped == block_idx_sym # idx
        key == ShardIdxToKey(m, block_idx_sym)
        Finish(X0) ==
            LET X1 == IF flipped THEN Transpose(X0) ELSE X0
                X2 == IF IsDiagonal(idx) THEN AddToDiagonal(X1, m.lambdav) ELSE X1
            IN Returned(X2)
    IN IF ~KeyExists(key) /\ ~m.parent_fn THEN {Raised}
       ELSE IF ~KeyExists(key) THEN {Finish(ParentFn(m, block_idx_sym))}
       ELSE {IF cast.how = "raised" THEN Raised ELSE Finish(cast.value[1]) :
                cast \in AsTypeWithOrder(Fetch(key), m.dtype)}

\* BigSymmetricMatrix.put_block_async (no_overwrite=False)
SymmetricPutBlock(m, block, idx) ==
    LET block_idx_sym == SymmetrizeIdx(idx)
        blk == IF block_idx_sym # idx THEN Transpose(block) ELSE block
        key == ShardIdxToKey(m, idx)
    IN IF Shape(blk) # CurrentShape(m, block_idx_sym)
       THEN [how |-> "raised", store |-> store]
       ELSE [how |-> "returned", store |-> SaveMatrixToS3(AsType(blk, m.dtype), key)]

\* ------------------------------------------------------------------------
\* job_runner.py: LRUCache
\* ------------------------------------------------------------------------
\* the cache_size lambdapack_run makes its cache with
cache_size == 5

CacheKeys == {"A", "B", "C", "D"}

\* list.remove(x): the list without the first x
RECURSIVE Remove(_, _)
Remove(sq, x) ==
    IF sq = <<>> THEN <<>>
    ELSE IF sq[1] = x THEN Tail(sq)
    ELSE <<sq[1]>> \o Remove(Tail(sq), x)

\* `x in list`
InList(x, sq) == \E i \in DOMAIN sq : sq[i] = x

\* `del self.cache[remove]`
DelItem(c, k) == [x \in (DOMAIN c) \ {k} |-> c[x]]

\* `self.cache[key] = value`
SetItemDict(c, k, v) == [x \in (DOMAIN c) \cup {k} |-> IF x = k THEN v ELSE c[x]]

\* a _mark that leaves a key that is already listed where it is
MarkFifo(c, order, n, key) ==
    LET marked == IF InList(key, order) THEN order ELSE <<key>> \o order
    IN IF Len(marked) > n
       THEN [cache |-> DelItem(c, marked[n + 1]),
             key_order |-> Remove(marked, marked[n + 1])]
       ELSE [cache |-> c, key_order |-> marked]

\* a _mark that drops the key from key_order but leaves its entry in the cache
MarkKeepsEntry(c, order, n, key) ==
    LET without == IF InList(key, order) THEN Remove(order, key) ELSE order
        marked == <<key>> \o without
    IN IF Len(marked) > n
       THEN [cache |-> c, key_order |-> Remove(marked, marked[n + 1])]
       ELSE [cache |-> c, key_order |-> marked]

\* LRUCache._mark: the key goes to the front of key_order; when key_order is
\* longer than max_items the key at position max_items (counted from 0) leaves
\* both key_order and the cache
Mark(c, order, n, key) ==
    LET without == IF InList(key, order) THEN Remove(order, key) ELSE order
        marked == <<key>> \o without
    IN IF Len(marked) > n
       THEN [cache |-> DelItem(c, marked[n + 1]),
             key_order |-> Remove(marked, marked[n + 1])]
       ELSE [cache |-> c, key_order |-> marked]

\* LRUCache.__init__
CacheInit(n) ==
    /\ max_items = n
    /\ cache = <<>>
    /\ key_order = <<>>
    /\ accesses = <<>>
    /\ lastCache = [op |-> "none"]

\* ------------------------------------------------------------------------
\* matrix.py: BigMatrixView
\* ------------------------------------------------------------------------
\* slice(start, stop, step); None is the empty sequence, a value v is <<v>>
Slice(start, stop, step) == [start |-> start, stop |-> stop, step |-> step]

\* BigMatrix.submatrix turns an axis spec (stop), (start, stop) or
\* (start, stop, step) into a slice, and None into slice(None, None, None)
SpecToSlice(block_slice) ==
    IF Len(block_slice) = 0 THEN Slice(<<>>, <<>>, <<>>)
    ELSE IF Len(block_slice) = 1 THEN Slice(<<>>, <<block_slice[1]>>, <<>>)
    ELSE IF Len(block_slice) = 2 THEN Slice(<<block_slice[1]>>, <<block_slice[2]>>, <<>>)
    ELSE Slice(<<block_slice[1]>>, <<block_slice[2]>>, <<block_slice[3]>>)

\* `int(np.ceil(parent.shape[i] / shard_sizes[i]))` per axis
AxisLens(m) == [a \in Axes |-> CeilDiv(m.shape[a], m.shard_sizes[a])]

\* BigMatrixView.__init__: the Nones of the slices given are replaced, the
\* axes without a slice get slice(0, axis_len, 1), and the shape of the view
\* is worked out; a transposed view reverses shape and shard_sizes
ViewInit(parent, parent_slices, transposed) ==
    LET given(a) ==
            LET sl == parent_slices[a]
                start == IF sl.start = <<>> THEN 0 ELSE sl.start[1]
                stop == IF sl.stop = <<>> THEN AxisLens(parent)[a] ELSE sl.stop[1]
                step == IF sl.step = <<>> THEN 1 ELSE sl.step[1]
                whole == parent.shard_sizes[a] * CeilDiv(stop - start, step)
                len == IF /\ stop = AxisLens(parent)[a]
                          /\ (stop - 1 - start) % step = 0
                          /\ parent.shape[a] % parent.shard_sizes[a] # 0
                       THEN whole + (parent.shape[a] % parent.shard_sizes[a])
                                  - parent.shard_sizes[a]
                       ELSE whole
            IN [slice |-> [start |-> start, stop |-> stop, step |-> step], len |-> len]
        trailing(a) ==
            [slice |-> [start |-> 0, stop |-> AxisLens(parent)[a], step |-> 1],
             len |-> parent.shape[a]]
        axis == [a \in Axes |-> IF a <= Len(parent_slices) THEN given(a) ELSE trailing(a)]
        shape == [a \in Axes |-> axis[a].len]
    IN [parent_slices |-> [a \in Axes |-> axis[a].slice],
        transposed |-> transposed,
        shape |-> IF transposed THEN Reversed(shape) ELSE shape,
        shard_sizes |-> IF transposed THEN Reversed(parent.shard_sizes)
                        ELSE parent.shard_sizes]

\* BigMatrix.submatrix(*block_slices)
Submatrix(m, block_slices) ==
    ViewInit(m, [a \in DOMAIN block_slices |-> SpecToSlice(block_slices[a])], FALSE)

\* BigMatrix.T
TransposeView(m) ==
    ViewInit(m, [a \in Axes |-> Slice(<<>>, <<>>, <<>>)], TRUE)

\* a translation that does not turn the index of a transposed view around
ViewToParentBlockIdxStraight(v, view_idx) ==
    LET elt == [a \in Axes |->
                  view_idx[a] * v.parent_slices[a].step + v.parent_slices[a].start]
    IN IF \E a \in Axes : elt[a] < 0 \/ elt[a] >= v.parent_slices[a].stop
       THEN Raised
       ELSE Returned(elt)

\* BigMatrixView.__view_to_parent_block_idx__ for an index with one element
\* per axis: view_elt * step + start on every axis, the elements reversed
\* first for a transposed view; NotImplementedError below 0, IndexError from
\* the stop of the slice on
ViewToParentBlockIdx(v, view_idx) ==
    LET intermediate_idx == IF v.transposed THEN Reversed(view_idx) ELSE view_idx
        elt == [a \in Axes |->
                  intermediate_idx[a] * v.parent_slices[a].step + v.parent_slices[a].start]
    IN IF \E a \in Axes : elt[a] < 0 \/ elt[a] >= v.parent_slices[a].stop
       THEN Raised
       ELSE Returned(elt)

\* BigMatrixView.__is_valid_parent_block_idx__ (axis=None)
IsValidParentBlockIdx(v, parent_idx) ==
    \A a \in Axes :
       /\ parent_idx[a] >= v.parent_slices[a].start
       /\ parent_idx[a] < v.parent_slices[a].stop
       /\ (parent_idx[a] - v.parent_slices[a].start) % v.parent_slices[a].step = 0

\* BigMatrixView.__parent_to_view_block_idx__ (axis=None)
ParentToViewBlockIdx(v, parent_idx) ==
    LET view_idx == [a \in Axes |->
                       (parent_idx[a] - v.parent_slices[a].start) \div v.parent_slices[a].step]
    IN IF v.transposed THEN Reversed(view_idx) ELSE view_idx

\* BigMatrixView._block_idxs(): of a transposed view the axis None is turned
\* into `len(self.shape) - None - 1`, a TypeError; otherwise the block
\* indices of the parent that the slices keep, as view indices
ViewBlockIdxsAll(m, v) ==
    IF v.transposed THEN Raised
    ELSE Returned([k \in DOMAIN SelectSeq(BlockIdxs(m), LAMBDA x : IsValidParentBlockIdx(v, x)) |->
                     ParentToViewBlockIdx(v,
                        SelectSeq(BlockIdxs(m), LAMBDA x : IsValidParentBlockIdx(v, x))[k])])

\* the property BigMatrixView.block_idxs: `self.parent.block_idxs()` calls the
\* list the property of the parent evaluates to, a TypeError
ViewBlockIdxs(m, v) == Raised

\* parent.get_block(*parent_idx): the outcomes it can have
ParentGetBlock(m, idx) ==
    IF m.cls = "BigSymmetricMatrix" THEN SymmetricGetBlock(m, idx)
    ELSE {BigMatrixGetBlock(m, idx)}

\* parent.put_block(block, *parent_idx)
ParentPutBlock(m, block, idx) ==
    IF m.cls = "BigSymmetricMatrix" THEN SymmetricPutBlock(m, block, idx)
    ELSE BigMatrixPutBlock(m, block, idx)

\* BigMatrixView.get_block: the outcomes, with the index handed to the parent
ViewGetBlock(m, v, idx) ==
    LET t == ViewToParentBlockIdx(v, idx)
    IN IF t.how = "raised"
       THEN {[how |-> "raised", value |-> <<>>, parent_idx |-> <<>>]}
       ELSE {[how |-> r.how,
              value |-> IF r.how = "returned" /\ v.transposed
                        THEN <<Transpose(r.value[1])>> ELSE r.value,
              parent_idx |-> t.value] : r \in ParentGetBlock(m, t.value[1])}

\* BigMatrixView.put_block: block.T for a transposed view, then the parent's
\* put_block at the translated index
ViewPutBlock(m, v, block, idx) ==
    LET blk == IF v.transposed THEN Transpose(block) ELSE block
        t == ViewToParentBlockIdx(v, idx)
    IN IF t.how = "raised"
       THEN [how |-> "raised", store |-> store, parent_idx |-> <<>>]
       ELSE LET r == ParentPutBlock(m, blk, t.value[1])
            IN [how |-> r.how, store |-> r.store, parent_idx |-> t.value]

\* BigMatrixView.delete_block: the parent's delete_block at the translated index
ViewDeleteBlock(m, v, idx) ==
    LET t == ViewToParentBlockIdx(v, idx)
    IN IF t.how = "raised"
       THEN [how |-> "raised", store |-> store, parent_idx |-> <<>>]
       ELSE LET r == DeleteBlockAsync(m, store, t.value[1])
            IN [how |-> r.how, store |-> r.store, parent_idx |-> t.value]

\* the bucket after BigMatrix.__init__: the header, if write_header asked for it
MatrixIdle ==
    /\ store = IF matrix.write_header THEN (HeaderKey :> Header(matrix)) ELSE <<>>
    /\ lastPut = [idx \in Idxs |-> <<>>]
    /\ last = [op |-> "none"]

\* ------------------------------------------------------------------------
\* lambdapack_run: the state right after the tasks were created
\* ------------------------------------------------------------------------
Init ==
    /\ RunnerInit
    /\ matrix = NoMatrix
    /\ MatrixIdle
    /\ CacheInit(cache_size)

\* a matrix of the model, just constructed, over an empty bucket
InitMatrix ==
    /\ RunnerInit
    /\ matrix \in Configs
    /\ MatrixIdle
    /\ CacheInit(cache_size)

\* a loop.stop() that leaves the tasks running
LoopRunningAlways == TRUE

\* run_forever runs tasks until loop.stop()
LoopRunning == ~loopStopped

\* ------------------------------------------------------------------------
\* What one run() calls, recorded in order
\* ------------------------------------------------------------------------
PreOp(pc) == [ev |-> "pre_op", pc |-> pc]
Instr(pc, i, how) == [ev |-> "instr", pc |-> pc, i |-> i, how |-> how]
\* tb and ret are <<>> for None and <<value>> otherwise
PostOp(pc, ec, tb, ret, how) ==
    [ev |-> "post_op", pc |-> pc, ec |-> ec, tb |-> tb, ret |-> ret, how |-> how]

\* what program.post_op(pc, SUCCESS) may return: None, or the child of pc in
\* the program's graph when that child has become ready
PostOpReturns(worklist, pc) ==
    IF Len(worklist) < MaxChain THEN {<<>>, <<next_of[pc]>>} ELSE {<<>>}

\* a run() that drops the counter post_op returned
AppendNextDropped(worklist, next_pc) == worklist

\* `if (next_pc != None): pcs.append(next_pc)`
AppendNext(worklist, next_pc) ==
    IF next_pc # <<>> THEN Append(worklist, next_pc[1]) ELSE worklist

\* an except branch that re-raises without reporting to the program
ExceptBranchSilent(tr, pc) == tr

\* the except branch of run(): format the traceback, report it, re-raise
ExceptBranch(tr, pc) ==
    Append(tr, PostOp(pc, EC_EXCEPTION, <<FormatExc>>, <<>>, "returned"))

VisibleIn(q) == {m \in Msgs : msgState[m] = "visible" /\ MsgQueue(m) = q}

\* ------------------------------------------------------------------------
\* lambdapack_run_async
\* ------------------------------------------------------------------------
\* `await asyncio.sleep(0)`, then the for loop starts with the first queue
Wake(w) ==
    /\ LoopRunning
    /\ wpc[w] = "sleep0"
    /\ wpc' = [wpc EXCEPT ![w] = "recv"]
    /\ wqi' = [wqi EXCEPT ![w] = 1]
    /\ polledEmpty' = [polledEmpty EXCEPT ![w] = {}]
    /\ UNCHANGED <<matrixVars, cacheVars, instr_refs>>
    /\ UNCHANGED <<status, loopStopped, msgState, lease, curHandle, nextHandle,
                   hMsg, lock, rst, rsleep, extFailed, wh, pcs, pci, ii, trace,
                   deletedBy>>

\* receive_message found nothing in the queue asked: `continue` with the next
\* queue, or, after the last one, back to the top of the while loop
ReceiveNothing(w) ==
    /\ LoopRunning
    /\ wpc[w] = "recv"
    /\ VisibleIn(PollOrder[wqi[w]]) = {}
    /\ polledEmpty' = [polledEmpty EXCEPT ![w] = @ \cup {PollOrder[wqi[w]]}]
    /\ IF wqi[w] < Len(PollOrder)
       THEN /\ wqi' = [wqi EXCEPT ![w] = @ + 1]
            /\ wpc' = wpc
       ELSE /\ wqi' = wqi
            /\ wpc' = [wpc EXCEPT ![w] = "sleep0"]
    /\ UNCHANGED <<matrixVars, cacheVars, instr_refs>>
    /\ UNCHANGED <<status, loopStopped, msgState, lease, curHandle, nextHandle,
                   hMsg, lock, rst, rsleep, extFailed, wh, pcs, pci, ii, trace,
                   deletedBy>>

\* receive_message returned message m (`break`): the worker parses the body,
\* makes and takes the lock, creates the renewer task and enters run(), which
\* calls pre_op and awaits the first instruction of the block
ReceiveMessage(w) ==
    /\ LoopRunning
    /\ wpc[w] = "recv"
    /\ nextHandle <= MaxDeliveries
    /\ \E m \in VisibleIn(PollOrder[wqi[w]]) :
         LET h == nextHandle
             v == VisibilityTimeout
             pc == ParseInt(MsgBody(m))
         IN /\ msgState' = [msgState EXCEPT ![m] = "inflight"]
            /\ lease' = [lease EXCEPT ![m] = v]
            /\ curHandle' = [curHandle EXCEPT ![m] = h]
            /\ nextHandle' = h + 1
            /\ hMsg' = [hMsg EXCEPT ![h] = m]
            /\ lock' = [lock EXCEPT ![h] = "locked"]
            /\ rst' = [rst EXCEPT ![h] = "check"]
            /\ wh' = [wh EXCEPT ![w] = h]
            /\ pcs' = [pcs EXCEPT ![w] = <<pc>>]
            /\ pci' = [pci EXCEPT ![w] = 1]
            /\ ii' = [ii EXCEPT ![w] = 1]
            /\ trace' = [trace EXCEPT ![w] = <<PreOp(pc)>>]
            /\ instr_refs' = Take(instr_refs, <<pc, 1>>)
            /\ wpc' = [wpc EXCEPT ![w] = "exec"]
    /\ UNCHANGED <<matrixVars, cacheVars>>
    /\ UNCHANGED <<status, loopStopped, rsleep, extFailed, wqi, polledEmpty, deletedBy>>

\* a worker that swallows the exception of run() and carries on to
\* lock.release() and delete_message
RunRaisedSwallowed(w, tr) ==
    /\ trace' = [trace EXCEPT ![w] = tr]
    /\ lock' = [lock EXCEPT ![wh[w]] = "released"]
    /\ wpc' = [wpc EXCEPT ![w] = "del"]
    /\ UNCHANGED <<pcs, pci, ii>>

\* a driver that starts the worker again when run() raised
RunRaisedRestarted(w, tr) ==
    /\ trace' = [trace EXCEPT ![w] = tr]
    /\ wpc' = [wpc EXCEPT ![w] = "sleep0"]
    /\ UNCHANGED <<lock, pcs, pci, ii>>

\* ------------------------------------------------------------------------
\* LambdaPackExecutor.run
\* ------------------------------------------------------------------------
\* run() raised: the worker's except block prints and re-raises, the task ends
\* (lock.release() and delete_message are skipped)
RunRaised(w, tr) ==
    /\ trace' = [trace EXCEPT ![w] = tr]
    /\ wpc' = [wpc EXCEPT ![w] = "dead"]
    /\ UNCHANGED <<lock, pcs, pci, ii>>

\* a worker that asks the queues again when run() returned, the message still
\* held
RunReturnedPollsAgain(w, tr, worklist) ==
    /\ trace' = [trace EXCEPT ![w] = tr]
    /\ pcs' = [pcs EXCEPT ![w] = worklist]
    /\ wpc' = [wpc EXCEPT ![w] = "recv"]
    /\ UNCHANGED <<lock, pci, ii>>

\* run() returned: lock.release(), then delete_message is awaited
RunReturned(w, tr, worklist) ==
    /\ trace' = [trace EXCEPT ![w] = tr]
    /\ pcs' = [pcs EXCEPT ![w] = worklist]
    /\ lock' = [lock EXCEPT ![wh[w]] = "released"]
    /\ wpc' = [wpc EXCEPT ![w] = "del"]
    /\ UNCHANGED <<pci, ii>>

\* the for loop of run() moves on to the next counter of the worklist
NextCounter(w, tr, worklist) ==
    /\ trace' = [trace EXCEPT ![w] = Append(tr, PreOp(worklist[pci[w] + 1]))]
    /\ pcs' = [pcs EXCEPT ![w] = worklist]
    /\ pci' = [pci EXCEPT ![w] = @ + 1]
    /\ ii' = [ii EXCEPT ![w] = 1]
    /\ UNCHANGED <<lock, wpc>>

\* an instruction that is not the last of its block returns
InstrReturns(w) ==
    /\ LoopRunning
    /\ wpc[w] = "exec"
    /\ ii[w] < inst_blocks[pcs[w][pci[w]]]
    /\ trace' = [trace EXCEPT ![w] = Append(@, Instr(pcs[w][pci[w]], ii[w], "returned"))]
    /\ ii' = [ii EXCEPT ![w] = @ + 1]
    /\ instr_refs' = Take(Release(instr_refs, <<pcs[w][pci[w]], ii[w]>>),
                          <<pcs[w][pci[w]], ii[w] + 1>>)
    /\ UNCHANGED <<matrixVars, cacheVars>>
    /\ UNCHANGED <<status, loopStopped, msgState, lease, curHandle, nextHandle,
                   hMsg, lock, rst, rsleep, extFailed, wpc, wqi, wh, pcs, pci,
                   polledEmpty, deletedBy>>

\* the last instruction of the block returns and post_op(pc, SUCCESS) returns
BlockDone(w) ==
    /\ LoopRunning
    /\ wpc[w] = "exec"
    /\ ii[w] = inst_blocks[pcs[w][pci[w]]]
    /\ \E next_pc \in PostOpReturns(pcs[w], pcs[w][pci[w]]) :
         LET pc == pcs[w][pci[w]]
             tr == Append(Append(trace[w], Instr(pc, ii[w], "returned")),
                          PostOp(pc, EC_SUCCESS, <<>>, next_pc, "returned"))
             worklist == AppendNext(pcs[w], next_pc)
         IN IF pci[w] < Len(worklist)
            THEN /\ NextCounter(w, tr, worklist)
                 /\ instr_refs' = Take(Release(instr_refs, <<pc, ii[w]>>),
                                       <<worklist[pci[w] + 1], 1>>)
            ELSE /\ RunReturned(w, tr, worklist)
                 /\ instr_refs' = Release(instr_refs, <<pc, ii[w]>>)
    /\ UNCHANGED <<matrixVars, cacheVars>>
    /\ UNCHANGED <<status, loopStopped, msgState, lease, curHandle, nextHandle,
                   hMsg, rst, rsleep, extFailed, wqi, wh, polledEmpty, deletedBy>>

\* the last instruction returns but post_op(pc, SUCCESS) itself raises: the
\* except branch of run() catches that too
PostOpRaises(w) ==
    /\ LoopRunning
    /\ wpc[w] = "exec"
    /\ ii[w] = inst_blocks[pcs[w][pci[w]]]
    /\ LET pc == pcs[w][pci[w]]
           tr == Append(Append(trace[w], Instr(pc, ii[w], "returned")),
                        PostOp(pc, EC_SUCCESS, <<>>, <<>>, "raised"))
       IN /\ RunRaised(w, ExceptBranch(tr, pc))
          /\ instr_refs' = Release(instr_refs, <<pc, ii[w]>>)
    /\ UNCHANGED <<matrixVars, cacheVars>>
    /\ UNCHANGED <<status, loopStopped, msgState, lease, curHandle, nextHandle,
                   hMsg, rst, rsleep, extFailed, wqi, wh, polledEmpty, deletedBy>>

\* the awaited instruction raises: the two assignments of None after the
\* await are skipped
InstrRaises(w) ==
    /\ LoopRunning
    /\ wpc[w] = "exec"
    /\ LET pc == pcs[w][pci[w]]
           tr == Append(trace[w], Instr(pc, ii[w], "raised"))
       IN RunRaised(w, ExceptBranch(tr, pc))
    /\ UNCHANGED <<matrixVars, cacheVars, instr_refs>>
    /\ UNCHANGED <<status, loopStopped, msgState, lease, curHandle, nextHandle,
                   hMsg, rst, rsleep, extFailed, wqi, wh, polledEmpty, deletedBy>>

\* delete_message(ReceiptHandle=receipt_handle) completes. With the handle of
\* the latest delivery of a message in flight the message is removed; with a
\* handle that is no longer current SQS may or may not remove it. The
\* iteration is over: its locals and the record of its run are dropped.
DeleteMessage(w) ==
    /\ LoopRunning
    /\ wpc[w] = "del"
    /\ LET m == hMsg[wh[w]]
       IN \/ /\ msgState[m] # "deleted"
             /\ msgState' = [msgState EXCEPT ![m] = "deleted"]
             /\ lease' = [lease EXCEPT ![m] = 0]
             /\ deletedBy' = [deletedBy EXCEPT ![m] = w]
          \/ /\ ~(msgState[m] = "inflight" /\ curHandle[m] = wh[w])
             /\ UNCHANGED <<msgState, lease, deletedBy>>
    /\ wpc' = [wpc EXCEPT ![w] = "sleep0"]
    /\ wh' = [wh EXCEPT ![w] = 0]
    /\ pcs' = [pcs EXCEPT ![w] = <<>>]
    /\ pci' = [pci EXCEPT ![w] = 0]
    /\ ii' = [ii EXCEPT ![w] = 0]
    /\ trace' = [trace EXCEPT ![w] = <<>>]
    /\ polledEmpty' = [polledEmpty EXCEPT ![w] = {}]
    /\ UNCHANGED <<matrixVars, cacheVars, instr_refs>>
    /\ UNCHANGED <<status, loopStopped, curHandle, nextHandle, hMsg, lock, rst,
                   rsleep, extFailed, wqi>>

\* ------------------------------------------------------------------------
\* reset_msg_visibility
\* ------------------------------------------------------------------------
\* a renewer that does not look at the lock
LockedAlways(h) == TRUE

\* lock.locked()
Locked(h) == lock[h] = "locked"

\* `while(lock.locked())`: go on to the extension call, or leave the loop
RenewerChecks(h) ==
    /\ LoopRunning
    /\ rst[h] = "check"
    /\ rst' = [rst EXCEPT ![h] = IF Locked(h) THEN "call" ELSE "done"]
    /\ UNCHANGED <<matrixVars, cacheVars, instr_refs>>
    /\ UNCHANGED <<status, loopStopped, msgState, lease, curHandle, nextHandle,
                   hMsg, lock, rsleep, extFailed, wpc, wqi, wh, pcs, pci, ii,
                   trace, polledEmpty, deletedBy>>

\* change_message_visibility succeeds (SQS accepts it for a message in flight
\* under this receipt handle); then `await asyncio.sleep(10)`
RenewerExtends(h) ==
    /\ LoopRunning
    /\ rst[h] = "call"
    /\ msgState[hMsg[h]] = "inflight"
    /\ curHandle[hMsg[h]] = h
    /\ lease' = [lease EXCEPT ![hMsg[h]] = VisibilityTimeout]
    /\ rst' = [rst EXCEPT ![h] = "sleep"]
    /\ rsleep' = [rsleep EXCEPT ![h] = RenewSleep]
    /\ UNCHANGED <<matrixVars, cacheVars, instr_refs>>
    /\ UNCHANGED <<status, loopStopped, msgState, curHandle, nextHandle, hMsg,
                   lock, extFailed, wpc, wqi, wh, pcs, pci, ii, trace,
                   polledEmpty, deletedBy>>

\* an error of change_message_visibility that reaches the worker holding the
\* message and ends it
RenewerFailsPropagates(h) ==
    /\ LoopRunning
    /\ rst[h] = "call"
    /\ rst' = [rst EXCEPT ![h] = "done"]
    /\ extFailed' = [extFailed EXCEPT ![h] = TRUE]
    /\ wpc' = [w \in Workers |->
                 IF wh[w] = h /\ wpc[w] \in {"exec", "del"} THEN "dead" ELSE wpc[w]]
    /\ UNCHANGED <<matrixVars, cacheVars, instr_refs>>
    /\ UNCHANGED <<status, loopStopped, msgState, lease, curHandle, nextHandle,
                   hMsg, lock, rsleep, wqi, wh, pcs, pci, ii, trace,
                   polledEmpty, deletedBy>>

\* change_message_visibility raises (the network, or SQS refusing the handle):
\* the except clause prints the error and the task returns
RenewerFails(h) ==
    /\ LoopRunning
    /\ rst[h] = "call"
    /\ rst' = [rst EXCEPT ![h] = "done"]
    /\ extFailed' = [extFailed EXCEPT ![h] = TRUE]
    /\ UNCHANGED <<matrixVars, cacheVars, instr_refs>>
    /\ UNCHANGED <<status, loopStopped, msgState, lease, curHandle, nextHandle,
                   hMsg, lock, rsleep, wpc, wqi, wh, pcs, pci, ii, trace,
                   polledEmpty, deletedBy>>

\* asyncio.sleep(10) is over
RenewerWakes(h) ==
    /\ LoopRunning
    /\ rst[h] = "sleep"
    /\ rsleep[h] = 0
    /\ rst' = [rst EXCEPT ![h] = "check"]
    /\ UNCHANGED <<matrixVars, cacheVars, instr_refs>>
    /\ UNCHANGED <<status, loopStopped, msgState, lease, curHandle, nextHandle,
                   hMsg, lock, rsleep, extFailed, wpc, wqi, wh, pcs, pci, ii,
                   trace, polledEmpty, deletedBy>>

\* ------------------------------------------------------------------------
\* check_program_state and the program it watches
\* ------------------------------------------------------------------------
\* a watchdog that stops the loop whatever the status is
CheckProgramStateStopsAnyway ==
    /\ LoopRunning
    /\ loopStopped' = TRUE
    /\ UNCHANGED <<matrixVars, cacheVars, instr_refs>>
    /\ UNCHANGED <<status, msgState, lease, curHandle, nextHandle, hMsg, lock,
                   rst, rsleep, extFailed, wpc, wqi, wh, pcs, pci, ii, trace,
                   polledEmpty, deletedBy>>

\* one round of the watchdog: on a status other than RUNNING, loop.stop();
\* otherwise sleep and ask again
CheckProgramState ==
    /\ LoopRunning
    /\ loopStopped' = (status # EC_RUNNING)
    /\ UNCHANGED <<matrixVars, cacheVars, instr_refs>>
    /\ UNCHANGED <<status, msgState, lease, curHandle, nextHandle, hMsg, lock,
                   rst, rsleep, extFailed, wpc, wqi, wh, pcs, pci, ii, trace,
                   polledEmpty, deletedBy>>

\* the distributed program leaves the running state
ProgramEnds ==
    /\ status = EC_RUNNING
    /\ status' \in {EC_SUCCESS, EC_EXCEPTION}
    /\ UNCHANGED <<matrixVars, cacheVars, instr_refs>>
    /\ UNCHANGED <<loopStopped, msgState, lease, curHandle, nextHandle, hMsg,
                   lock, rst, rsleep, extFailed, wpc, wqi, wh, pcs, pci, ii,
                   trace, polledEmpty, deletedBy>>

\* ------------------------------------------------------------------------
\* Time
\* ------------------------------------------------------------------------
\* Queue calls and task switches take no time next to the timers: no time
\* passes while a renewer is due or in its call, or a delete_message is out.
\* Instructions and polling take any amount of time.
Urgent ==
    /\ LoopRunning
    /\ \/ \E h \in Handles : rst[h] \in {"check", "call"}
       \/ \E h \in Handles : rst[h] = "sleep" /\ rsleep[h] = 0
       \/ \E w \in Workers : wpc[w] = "del"

\* the timers that are running: leases at SQS, and sleeps of the event loop
Timers ==
    {lease[m] : m \in {x \in Msgs : msgState[x] = "inflight"}}
    \cup (IF LoopRunning THEN {rsleep[h] : h \in {x \in Handles : rst[x] = "sleep"}}
          ELSE {})

Min(S) == CHOOSE x \in S : \A y \in S : x <= y

\* time passes up to the next timer that runs out; a lease that runs out makes
\* its message visible again
Tick ==
    /\ ~Urgent
    /\ Timers # {}
    /\ LET d == Min(Timers)
       IN /\ lease' = [m \in Msgs |->
                        IF msgState[m] = "inflight" THEN lease[m] - d ELSE lease[m]]
          /\ msgState' = [m \in Msgs |->
                        IF msgState[m] = "inflight" /\ lease[m] = d
                        THEN "visible" ELSE msgState[m]]
          /\ rsleep' = [h \in Handles |->
                        IF LoopRunning /\ rst[h] = "sleep" THEN rsleep[h] - d
                        ELSE rsleep[h]]
    /\ UNCHANGED <<matrixVars, cacheVars, instr_refs>>
    /\ UNCHANGED <<status, loopStopped, curHandle, nextHandle, hMsg, lock, rst,
                   extFailed, wpc, wqi, wh, pcs, pci, ii, trace, polledEmpty,
                   deletedBy>>

Next ==
    \/ \E w \in Workers : Wake(w)
    \/ \E w \in Workers : ReceiveNothing(w)
    \/ \E w \in Workers : ReceiveMessage(w)
    \/ \E w \in Workers : InstrReturns(w)
    \/ \E w \in Workers : BlockDone(w)
    \/ \E w \in Workers : PostOpRaises(w)
    \/ \E w \in Workers : InstrRaises(w)
    \/ \E w \in Workers : DeleteMessage(w)
    \/ \E h \in Handles : RenewerChecks(h)
    \/ \E h \in Handles : RenewerExtends(h)
    \/ \E h \in Handles : RenewerFails(h)
    \/ \E h \in Handles : RenewerWakes(h)
    \/ CheckProgramState
    \/ ProgramEnds
    \/ Tick

Spec == Init /\ [][Next]_vars

\* the event loop runs every task that is ready: the watchdog, created first
\* and asleep for ten seconds at a time, gets its turn again and again
SpecFair == Spec /\ WF_vars(CheckProgramState)

\* ------------------------------------------------------------------------
\* Calls on the matrix
\* ------------------------------------------------------------------------
\* the shapes of the blocks handed to put_block: every block extent of the matrix
Extents == {<<r, c>> : r \in 1..2, c \in 1..2}

\* put_block(block, *idx) on a BigMatrix
PutBlock ==
    /\ matrix.cls = "BigMatrix"
    /\ \E idx \in Idxs, shape \in Extents, seed \in 1..NumSeeds :
         \E block \in {TestBlock(shape, seed)} :
         \E res \in {BigMatrixPutBlock(matrix, block, idx)} :
            /\ store' = res.store
            /\ lastPut' = IF res.how = "returned"
                          THEN [lastPut EXCEPT ![idx] = <<block>>] ELSE lastPut
            /\ last' = [op |-> "put", idx |-> idx, shape |-> Shape(block),
                        block |-> IF res.how = "returned" THEN <<block>> ELSE <<>>,
                        how |-> res.how, value |-> <<>>]
    /\ UNCHANGED <<matrix, runnerVars, cacheVars>>

\* get_block(*idx) on a BigMatrix
GetBlock ==
    /\ matrix.cls = "BigMatrix"
    /\ \E idx \in Idxs :
         \E res \in {BigMatrixGetBlock(matrix, idx)} :
            last' = [op |-> "get", idx |-> idx, shape |-> <<>>, block |-> <<>>,
                     how |-> res.how, value |-> res.value]
    /\ UNCHANGED <<matrix, store, lastPut, runnerVars, cacheVars>>

\* put_block(block, *idx) on a BigSymmetricMatrix
SymmetricPut ==
    /\ matrix.cls = "BigSymmetricMatrix"
    /\ \E idx \in Idxs, shape \in Extents, seed \in 1..NumSeeds :
         \E block \in {TestBlock(shape, seed)} :
         \E res \in {SymmetricPutBlock(matrix, block, idx)} :
            /\ store' = res.store
            /\ lastPut' = IF res.how = "returned"
                          THEN [lastPut EXCEPT ![idx] = <<block>>] ELSE lastPut
            /\ last' = [op |-> "put", idx |-> idx, shape |-> Shape(block),
                        block |-> IF res.how = "returned" THEN <<block>> ELSE <<>>,
                        how |-> res.how, value |-> <<>>]
    /\ UNCHANGED <<matrix, runnerVars, cacheVars>>

\* get_block(*idx) on a BigSymmetricMatrix
SymmetricGet ==
    /\ matrix.cls = "BigSymmetricMatrix"
    /\ \E idx \in Idxs :
         \E res \in SymmetricGetBlock(matrix, idx) :
            last' = [op |-> "get", idx |-> idx, shape |-> <<>>, block |-> <<>>,
                     how |-> res.how, value |-> res.value]
    /\ UNCHANGED <<matrix, store, lastPut, runnerVars, cacheVars>>

\* block_idxs_exist and block_idxs_not_exist of the matrix
ListBlocks ==
    /\ \E ex \in {BlockIdxsExist(matrix)}, nex \in {BlockIdxsNotExist(matrix)} :
         last' = [op |-> "list", how |-> ex.how, exist |-> ex.value,
                  not_exist |-> nex.value]
    /\ UNCHANGED <<matrix, store, lastPut, runnerVars, cacheVars>>

\* delete_block(*idx) on the matrix
DeleteBlock ==
    /\ \E idx \in Idxs :
         \E res \in {DeleteBlockAsync(matrix, store, idx)} :
            /\ store' = res.store
            /\ last' = [op |-> "delete", idx |-> idx, how |-> res.how]
    /\ UNCHANGED <<matrix, lastPut, runnerVars, cacheVars>>

\* free() on the matrix
Free ==
    /\ \E res \in {FreeAll(matrix)} :
         /\ store' = res.store
         /\ last' = [op |-> "free", how |-> res.how]
    /\ UNCHANGED <<matrix, lastPut, runnerVars, cacheVars>>

NextMatrix ==
    \/ ListBlocks
    \/ DeleteBlock
    \/ Free
    \/ PutBlock
    \/ GetBlock
    \/ SymmetricPut
    \/ SymmetricGet

SpecMatrix == InitMatrix /\ [][NextMatrix]_vars

\* ------------------------------------------------------------------------
\* Calls on an LRUCache
\* ------------------------------------------------------------------------
\* caches of every capacity up to MaxItems, just constructed
InitCache ==
    /\ RunnerInit
    /\ matrix = NoMatrix
    /\ MatrixIdle
    /\ \E n \in 0..MaxItems : CacheInit(n)

\* LRUCache.__setitem__: cache[key] = value; the value written tells the puts
\* apart
SetItem ==
    /\ Len(accesses) < MaxOps
    /\ \E key \in CacheKeys :
         LET value == Len(accesses) + 1
             res == Mark(SetItemDict(cache, key, value), key_order, max_items, key)
         IN /\ cache' = res.cache
            /\ key_order' = res.key_order
            /\ accesses' = Append(accesses, [op |-> "put", key |-> key, value |-> value])
            /\ lastCache' = [op |-> "put", key |-> key, how |-> "returned", value |-> value]
    /\ UNCHANGED <<max_items, runnerVars, matrixVars>>

\* LRUCache.__getitem__ of a key that is cached
GetItem ==
    /\ Len(accesses) < MaxOps
    /\ \E key \in DOMAIN cache :
         LET res == Mark(cache, key_order, max_items, key)
         IN /\ cache' = res.cache
            /\ key_order' = res.key_order
            /\ accesses' = Append(accesses, [op |-> "get", key |-> key, value |-> cache[key]])
            /\ lastCache' = [op |-> "get", key |-> key, how |-> "returned", value |-> cache[key]]
    /\ UNCHANGED <<max_items, runnerVars, matrixVars>>

\* LRUCache.__getitem__ of a key that is not cached: KeyError, before _mark
GetItemMissing ==
    /\ \E key \in CacheKeys \ DOMAIN cache :
         lastCache' = [op |-> "get", key |-> key, how |-> "raised", value |-> 0]
    /\ UNCHANGED <<max_items, cache, key_order, accesses, runnerVars, matrixVars>>

NextCache ==
    \/ SetItem
    \/ GetItem
    \/ GetItemMissing

SpecCache == InitCache /\ [][NextCache]_vars

\* ------------------------------------------------------------------------
\* Storage keys of matrices of many shapes
\* ------------------------------------------------------------------------
\* shapes and shard sizes per axis: blocks that divide the axis and blocks
\* that leave a remainder, numbers of one digit and of two
KeyDims == {1, 3, 4, 11}
KeyShards == {1, 2, 5}

KeyConfigs ==
    {[cls |-> "BigMatrix", shape |-> <<r, c>>, shard_sizes |-> <<sr, sc>>,
      dtype |-> "float64", lambdav |-> 0, parent_fn |-> FALSE, write_header |-> FALSE] :
        r \in KeyDims, c \in KeyDims, sr \in KeyShards, sc \in KeyShards}

\* the block indices of a matrix, and one past the end of each axis
IdxsOf(m) ==
    {<<i, j>> : i \in 0..CeilDiv(m.shape[1], m.shard_sizes[1]),
                j \in 0..CeilDiv(m.shape[2], m.shard_sizes[2])}

InitKey ==
    /\ RunnerInit
    /\ matrix \in KeyConfigs
    /\ store = <<>>
    /\ lastPut = <<>>
    /\ last = [op |-> "none"]
    /\ CacheInit(cache_size)

\* matrix.__shard_idx_to_key__(idx)
ShardIdxToKeyCall ==
    /\ \E idx \in IdxsOf(matrix) :
         last' = [op |-> "key", idx |-> idx, key |-> ShardIdxToKey(matrix, idx)]
    /\ UNCHANGED <<matrix, store, lastPut, runnerVars, cacheVars>>

\* matrix._blocks(axis=a)
BlocksCall ==
    /\ \E a \in Axes :
         \E res \in {BlocksAxisCall(matrix, a)} :
            last' = [op |-> "blocks", axis |-> a, how |-> res.how, value |-> res.value]
    /\ UNCHANGED <<matrix, store, lastPut, runnerVars, cacheVars>>

NextKey ==
    \/ ShardIdxToKeyCall
    \/ BlocksCall

SpecKey == InitKey /\ [][NextKey]_vars

\* ------------------------------------------------------------------------
\* Calls on views of the matrix
\* ------------------------------------------------------------------------
\* the views of the model: matrix.T (a BigSymmetricMatrix is its own
\* transpose), the second block row, the first of every two block rows, and
\* rows up to a stop past the last block row
Views(m) ==
    (IF m.cls = "BigMatrix" THEN {TransposeView(m)} ELSE {})
    \cup {Submatrix(m, <<<<1, 2>>>>), Submatrix(m, <<<<0, 2, 2>>>>),
          Submatrix(m, <<<<0, 3>>>>)}

\* a matrix without producer or regularisation, just constructed
InitView ==
    /\ RunnerInit
    /\ matrix \in {c \in Configs : ~c.parent_fn /\ c.lambdav = 0}
    /\ MatrixIdle
    /\ CacheInit(cache_size)

\* view.get_block(*idx)
ViewGet ==
    /\ \E v \in Views(matrix), idx \in Idxs :
         \E res \in ViewGetBlock(matrix, v, idx) :
            last' = [op |-> "vget", view |-> v, idx |-> idx, how |-> res.how,
                     value |-> res.value, parent_idx |-> res.parent_idx]
    /\ UNCHANGED <<matrix, store, lastPut, runnerVars, cacheVars>>

\* view.put_block(block, *idx)
ViewPut ==
    /\ \E v \in Views(matrix), idx \in Idxs, shape \in Extents :
         \E block \in {TestBlock(shape, 1)} :
         \E res \in {ViewPutBlock(matrix, v, block, idx)} :
            /\ store' = res.store
            /\ last' = [op |-> "vput", view |-> v, idx |-> idx, how |-> res.how,
                        value |-> <<block>>, parent_idx |-> res.parent_idx]
    /\ UNCHANGED <<matrix, lastPut, runnerVars, cacheVars>>

\* view.delete_block(*idx)
ViewDelete ==
    /\ \E v \in Views(matrix), idx \in Idxs :
         \E res \in {ViewDeleteBlock(matrix, v, idx)} :
            /\ store' = res.store
            /\ last' = [op |-> "vdelete", view |-> v, idx |-> idx, how |-> res.how,
                        value |-> <<>>, parent_idx |-> res.parent_idx]
    /\ UNCHANGED <<matrix, lastPut, runnerVars, cacheVars>>

\* view.block_idxs, with view._block_idxs() next to it
ViewList ==
    /\ \E v \in Views(matrix) :
         \E res \in {ViewBlockIdxs(matrix, v)}, all \in {ViewBlockIdxsAll(matrix, v)} :
            last' = [op |-> "vlist", view |-> v, how |-> res.how, value |-> res.value,
                     under |-> all]
    /\ UNCHANGED <<matrix, store, lastPut, runnerVars, cacheVars>>

NextView ==
    \/ ViewGet
    \/ ViewPut
    \/ ViewDelete
    \/ ViewList

SpecView == InitView /\ [][NextView]_vars

\* ------------------------------------------------------------------------
\* Calls of _symmetrize_idx
\* ------------------------------------------------------------------------
\* the largest element of a block index handed to _symmetrize_idx
MaxIdx == 4

\* block indices of one, two and three axes
SymIdxs ==
    {<<i>> : i \in 0..MaxIdx}
    \cup {<<i, j>> : i \in 0..MaxIdx, j \in 0..MaxIdx}
    \cup {<<i, j, k>> : i \in 0..MaxIdx, j \in 0..MaxIdx, k \in 0..MaxIdx}

\* a BigSymmetricMatrix, just constructed
InitSymmetrize ==
    /\ RunnerInit
    /\ matrix \in {c \in Configs : c.cls = "BigSymmetricMatrix"}
    /\ MatrixIdle
    /\ CacheInit(cache_size)

\* matrix._symmetrize_idx(idx)
SymmetrizeIdxCall ==
    /\ \E idx \in SymIdxs :
         last' = [op |-> "symmetrize", idx |-> idx, out |-> SymmetrizeIdx(idx)]
    /\ UNCHANGED <<matrix, store, lastPut, runnerVars, cacheVars>>

NextSymmetrize == SymmetrizeIdxCall

SpecSymmetrize == InitSymmetrize /\ [][NextSymmetrize]_vars

\* ------------------------------------------------------------------------
\* Guarded puts and reads of stored objects
\* ------------------------------------------------------------------------
\* matrices without a producer, just constructed
InitStore ==
    /\ RunnerInit
    /\ matrix \in {c \in Configs : ~c.parent_fn}
    /\ MatrixIdle
    /\ CacheInit(cache_size)

\* the blocks these calls address: one beside the diagonal, whose last axis is
\* the undersized remainder, and the remainder corner on the diagonal
StoreIdxs == {<<0, 1>>, <<1, 1>>}

\* put_block_async(block, loop, *idx) on a matrix of either class
PutOverwrite ==
    /\ \E idx \in StoreIdxs, shape \in Extents, seed \in 1..NumSeeds :
         \E block \in {TestBlock(shape, seed)} :
         \E res \in {IF matrix.cls = "BigMatrix"
                     THEN BigMatrixPutBlock(matrix, block, idx)
                     ELSE SymmetricPutBlock(matrix, block, idx)} :
            /\ store' = res.store
            /\ lastPut' = IF res.how = "returned"
                          THEN [lastPut EXCEPT ![idx] = <<block>>] ELSE lastPut
            /\ last' = [op |-> "put", idx |-> idx, shape |-> Shape(block),
                        block |-> IF res.how = "returned" THEN <<block>> ELSE <<>>,
                        how |-> res.how, value |-> <<>>]
    /\ UNCHANGED <<matrix, runnerVars, cacheVars>>

\* put_block_async(block, loop, *idx, no_overwrite=True) on a matrix of either
\* class; `close` tells whether a get_block at idx, before the call, can give
\* a block np.allclose finds equal to the new one
PutNoOverwrite ==
    /\ \E idx \in StoreIdxs, shape \in Extents, seed \in 1..NumSeeds :
         \E block \in {TestBlock(shape, seed)} :
         \E res \in {IF matrix.cls = "BigMatrix"
                     THEN BigMatrixPutBlockNoOverwrite(matrix, block, idx)
                     ELSE SymmetricPutBlockNoOverwrite(matrix, block, idx)} :
            LET key == ShardIdxToKey(matrix, idx)
                got == IF matrix.cls = "BigMatrix"
                       THEN {BigMatrixGetBlock(matrix, idx)}
                       ELSE SymmetricGetBlock(matrix, idx)
            IN /\ store' = res.store
               /\ lastPut' = IF res.how = "returned"
                             THEN [lastPut EXCEPT ![idx] = <<block>>] ELSE lastPut
               /\ last' = [op |-> "put_no_overwrite", idx |-> idx, key |-> key,
                           fits |-> Shape(block) = CurrentShape(matrix, idx),
                           old |-> IF KeyExists(key) THEN <<store[key]>> ELSE <<>>,
                           close |-> \E g \in got :
                                        /\ g.how = "returned"
                                        /\ Broadcastable(g.value[1], block)
                                        /\ AllClose(g.value[1], block),
                           how |-> res.how, error |-> res.error]
    /\ UNCHANGED <<matrix, runnerVars, cacheVars>>

\* __s3_key_to_byte_io__(key) on the key of a stored block, as get_block_async
\* calls it, the store failing the first `fails` reads
S3KeyToByteIOCall ==
    /\ \E key \in DOMAIN store \ {HeaderKey}, fails \in 0..MaxFails :
         \E res \in {S3KeyToByteIO(key, fails)} :
            last' = [op |-> "fetch", key |-> key, fails |-> fails,
                     how |-> res.how, value |-> res.value, attempts |-> res.attempts]
    /\ UNCHANGED <<matrix, store, lastPut, runnerVars, cacheVars>>

NextStore ==
    \/ PutOverwrite
    \/ PutNoOverwrite
    \/ S3KeyToByteIOCall

SpecStore == InitStore /\ [][NextStore]_vars

\* ------------------------------------------------------------------------
\* Views made by submatrix
\* ------------------------------------------------------------------------
\* the largest step of a slice handed to submatrix
MaxStep == 3

\* axis lengths of the parents: two or three blocks of two elements, the last
\* block whole or an undersized remainder
SubDims == {3, 4, 5}

SubConfigs ==
    {[cls |-> "BigMatrix", shape |-> <<r, c>>, shard_sizes |-> <<2, 2>>,
      dtype |-> "float64", lambdav |-> 0, parent_fn |-> FALSE, write_header |-> FALSE] :
        r \in SubDims, c \in SubDims}

\* the axis specs (stop), (start, stop) and (start, stop, step) with
\* 0 <= start <= stop <= number of blocks of the parent on axis a
SliceSpecs(m, a) ==
    LET n == AxisLens(m)[a]
    IN {<<stop>> : stop \in 0..n}
       \cup {x \in {<<start, stop>> : start \in 0..n, stop \in 0..n} : x[1] <= x[2]}
       \cup {x \in {<<start, stop, step>> :
                       start \in 0..n, stop \in 0..n, step \in 1..MaxStep} : x[1] <= x[2]}

\* a matrix, just constructed
InitSubmatrix ==
    /\ RunnerInit
    /\ matrix \in SubConfigs
    /\ MatrixIdle
    /\ CacheInit(cache_size)

\* matrix.submatrix(spec) and matrix.submatrix(None, spec)
SubmatrixCall ==
    /\ \E a \in Axes :
         \E sp \in SliceSpecs(matrix, a) :
            LET block_slices == IF a = 1 THEN <<sp>> ELSE <<<<>>, sp>>
            IN last' = [op |-> "submatrix", block_slices |-> block_slices,
                        view |-> Submatrix(matrix, block_slices)]
    /\ UNCHANGED <<matrix, store, lastPut, runnerVars, cacheVars>>

NextSubmatrix == SubmatrixCall

SpecSubmatrix == InitSubmatrix /\ [][NextSubmatrix]_vars

\* ========================================================================
\* Properties of the job runner (specification Spec)
\* ========================================================================
Last(sq) == sq[Len(sq)]

IsPost(e) == e.ev = "post_op"
IsInstr(e) == e.ev = "instr"
IsPre(e) == e.ev = "pre_op"

\* the record of a run() that returned normally: nothing raised, every
\* counter that was started reported SUCCESS, and the last report returned None
ReturnedNormally(tr) ==
    /\ tr # <<>>
    /\ \A k \in DOMAIN tr :
         /\ IsInstr(tr[k]) => tr[k].how = "returned"
         /\ IsPost(tr[k]) => tr[k].ec = EC_SUCCESS /\ tr[k].how = "returned"
         /\ IsPre(tr[k]) => \E j \in DOMAIN tr :
                               /\ j > k
                               /\ IsPost(tr[j])
                               /\ tr[j].pc = tr[k].pc
                               /\ tr[j].ec = EC_SUCCESS
    /\ IsPost(Last(tr))
    /\ Last(tr).ret = <<>>

\* the message the worker is holding
Held(w) == hMsg[wh[w]]

\* C1: a worker deletes its message only after run() returned normally, that
\* is after every counter of the chain reported SUCCESS; a worker whose run()
\* raised never deletes the message.
C1_DeleteOnlyAfterNormalReturn ==
    /\ [][\A m \in Msgs :
            (msgState[m] # "deleted" /\ msgState'[m] = "deleted") =>
               \E w \in Workers :
                  /\ wpc[w] = "del"
                  /\ Held(w) = m
                  /\ deletedBy'[m] = w
                  /\ ReturnedNormally(trace[w])
                  /\ trace[w][1] = PreOp(ParseInt(MsgBody(m)))]_vars
    /\ [](\A w \in Workers : wpc[w] = "dead" => deletedBy[Held(w)] # w)

\* one message was deleted after a normal return while the run of another
\* message raised and its message is still there
C1_Witness ==
    \E m \in Msgs, w \in Workers :
       /\ msgState[m] = "deleted"
       /\ wpc[w] = "dead"
       /\ msgState[Held(w)] # "deleted"

\* C2: while a worker executes a message and no extension request has failed,
\* the renewer extends the lease to the visibility timeout and then sleeps
\* strictly less than that, so the lease never runs out and the message is
\* never visible or delivered to another consumer before the worker deletes it.
C2_LeaseHeldWhileExecuting ==
    \A w \in Workers :
       (LoopRunning /\ wpc[w] \in {"exec", "del"} /\ ~extFailed[wh[w]]) =>
          LET h == wh[w]
              m == Held(w)
          IN /\ msgState[m] # "visible"
             /\ msgState[m] = "inflight" =>
                   /\ curHandle[m] = h
                   /\ lease[m] > 0
                   /\ (wpc[w] = "exec" /\ rst[h] = "sleep") =>
                         /\ lease[m] > rsleep[h]
                         /\ lease[m] = VisibilityTimeout - (RenewSleep - rsleep[h])

\* a worker is still executing when its renewer's nap ends: a whole nap has
\* gone by on the lease
C2_Witness ==
    \E w \in Workers :
       /\ LoopRunning
       /\ wpc[w] = "exec"
       /\ ~extFailed[wh[w]]
       /\ rst[wh[w]] = "sleep"
       /\ rsleep[wh[w]] = 0
       /\ msgState[Held(w)] = "inflight"
       /\ lease[Held(w)] = VisibilityTimeout - RenewSleep

HighestQueue == CHOOSE q \in {queue_urls[i] : i \in DOMAIN queue_urls} :
                   \A i \in DOMAIN queue_urls : Priority(q) >= Priority(queue_urls[i])

\* C3: in a polling cycle the queue with the highest priority is asked first,
\* so a message it has is the one processed, and a worker holds a message of a
\* lower-priority queue only if every queue of higher priority returned no
\* message in that cycle.
C3_HighestPriorityFirst ==
    \A w \in Workers :
       /\ (wpc[w] = "recv" /\ polledEmpty[w] = {}) => PollOrder[wqi[w]] = HighestQueue
       /\ wpc[w] \in {"exec", "del", "dead"} =>
             \A i \in DOMAIN queue_urls :
                Priority(queue_urls[i]) > Priority(MsgQueue(Held(w))) =>
                   queue_urls[i] \in polledEmpty[w]

\* a worker runs a message of the low-priority queue
C3_Witness ==
    \E w \in Workers :
       /\ wpc[w] = "exec"
       /\ MsgQueue(Held(w)) # HighestQueue
       /\ HighestQueue \in polledEmpty[w]

\* the counters whose block was run to its last instruction, in order
RECURSIVE BlocksRun(_)
BlocksRun(tr) ==
    IF tr = <<>> THEN <<>>
    ELSE LET e == tr[1]
         IN IF IsInstr(e) /\ e.i = inst_blocks[e.pc] /\ e.how = "returned"
            THEN <<e.pc>> \o BlocksRun(Tail(tr))
            ELSE BlocksRun(Tail(tr))

\* the counters post_op returned, in order
RECURSIVE Successors(_)
Successors(tr) ==
    IF tr = <<>> THEN <<>>
    ELSE LET e == tr[1]
         IN IF IsPost(e) /\ e.how = "returned" /\ e.ret # <<>>
            THEN e.ret \o Successors(Tail(tr))
            ELSE Successors(Tail(tr))

\* a whole block as run() walks it: pre_op, every instruction, post_op(SUCCESS)
BlockEvents(pc, ret) ==
    <<PreOp(pc)>>
    \o [i \in 1..inst_blocks[pc] |-> Instr(pc, i, "returned")]
    \o <<PostOp(pc, EC_SUCCESS, <<>>, ret, "returned")>>

\* C4: within one run() call the blocks executed are the starting counter
\* followed by each counter post_op returned, in order, every block whole, and
\* run() returns only after a post_op returned None.
C4_ChainInOneRun ==
    \A w \in Workers :
       wpc[w] = "del" =>
          LET tr == trace[w]
              rets == Successors(tr)
              chain == <<ParseInt(MsgBody(Held(w)))>> \o rets
          IN /\ BlocksRun(tr) = chain
             /\ IsPost(Last(tr))
             /\ Last(tr).ret = <<>>
             /\ \A k \in 1..Len(tr) - 1 : IsPost(tr[k]) => tr[k].ret # <<>>
             /\ \E cut \in [1..Len(chain) -> 1..Len(tr)] :
                   \A c \in 1..Len(chain) :
                      LET from == IF c = 1 THEN 1 ELSE cut[c - 1] + 1
                          ret == IF c = Len(chain) THEN <<>> ELSE <<chain[c + 1]>>
                      IN /\ cut[c] >= from
                         /\ SubSeq(tr, from, cut[c]) = BlockEvents(chain[c], ret)
                         /\ c = Len(chain) => cut[c] = Len(tr)

\* pc 1 ran, its post_op returned 5, pc 5 ran, its post_op returned None
C4_Witness ==
    \E w \in Workers :
       /\ wpc[w] = "del"
       /\ BlocksRun(trace[w]) = <<1, 5>>
       /\ Successors(trace[w]) = <<5>>

\* C5: when an instruction of the block of pc raises, post_op is called for
\* pc with EXCEPTION and a non-empty traceback string right after it, nothing
\* else of the block or of the chain is executed, and run() raises instead of
\* returning.
C5_FailurePropagates ==
    \A w \in Workers :
       \A k \in DOMAIN trace[w] :
          (IsInstr(trace[w][k]) /\ trace[w][k].how = "raised") =>
             /\ wpc[w] = "dead"
             /\ k = Len(trace[w]) - 1
             /\ IsPost(Last(trace[w]))
             /\ Last(trace[w]).pc = trace[w][k].pc
             /\ Last(trace[w]).ec = EC_EXCEPTION
             /\ Last(trace[w]).tb # <<>>
             /\ Last(trace[w]).tb[1] # ""

\* the first instruction of the two-instruction block of pc 1 raised
C5_Witness ==
    \E w \in Workers :
       /\ wpc[w] = "dead"
       /\ Len(trace[w]) = 3
       /\ trace[w][2] = Instr(1, 1, "raised")
       /\ inst_blocks[1] > 1

\* C6 (as claimed): once run() has raised in a worker, that worker does not
\* delete the message and the renewer of the message finds nothing to renew:
\* asked again, it does not start another extension of the lease.
C6_RenewalStopsAfterFailure ==
    [][\A w \in Workers :
         wpc[w] = "dead" =>
            /\ deletedBy'[Held(w)] # w
            /\ rst[wh[w]] = "check" => rst'[wh[w]] # "call"]_vars

\* what the code does instead: as long as the loop runs and no extension
\* request fails, the lock of a failed run stays held and its message never
\* becomes visible again
C6_FailedMessageStaysLeased ==
    \A w \in Workers :
       (LoopRunning /\ wpc[w] = "dead" /\ ~extFailed[wh[w]]) =>
          /\ lock[wh[w]] = "locked"
          /\ msgState[Held(w)] # "visible"
          /\ msgState[Held(w)] = "inflight" => curHandle[Held(w)] = wh[w]

C8_GetReturnsLastPut ==
    matrix.cls = "BigMatrix" =>
       /\ (last.op = "get" /\ ValidIdx(matrix, last.idx) /\ lastPut[last.idx] # <<>>) =>
             /\ last.how = "returned"
             /\ last.value = lastPut[last.idx]
       /\ (last.op = "put" /\ last.how = "returned" /\ ValidIdx(matrix, last.idx)) =>
             BigMatrixGetBlock(matrix, last.idx) = Returned(last.block[1])

\* a block was put at (0, 0), blocks were put at two other indices, and
\* get_block(0, 0) was called
C8_Witness ==
    /\ matrix.cls = "BigMatrix"
    /\ last.op = "get"
    /\ last.idx = <<0, 0>>
    /\ last.how = "returned"
    /\ lastPut[<<0, 0>>] # <<>>
    /\ lastPut[<<0, 1>>] # <<>>
    /\ lastPut[<<1, 0>>] # <<>>

\* the key of the canonical index of idx
CanonicalKey(m, idx) == ShardIdxToKey(m, SymmetrizeIdx(idx))

\* C9 (as claimed): on a BigSymmetricMatrix with lambdav = 0, a successful
\* put_block(B, i, j) leaves B's object under the canonical key of (i, j), and
\* a following get_block(i, j) does not fail for want of the object: when it
\* returns, it returns B, as get_block(j, i) returns the transpose of B.
C9_PutUnderCanonicalKey ==
    (/\ matrix.cls = "BigSymmetricMatrix"
     /\ matrix.lambdav = 0
     /\ last.op = "put"
     /\ last.how = "returned") =>
       LET B == AsType(last.block[1], matrix.dtype)
           idx == last.idx
           mirror == <<idx[2], idx[1]>>
       IN /\ KeyExists(CanonicalKey(matrix, idx))
          /\ Returned(B) \in SymmetricGetBlock(matrix, idx)
          /\ Returned(Transpose(B)) \in SymmetricGetBlock(matrix, mirror)
          /\ \A r \in SymmetricGetBlock(matrix, idx) :
                r.how = "returned" => r = Returned(B)
          /\ \A r \in SymmetricGetBlock(matrix, mirror) :
                r.how = "returned" => r = Returned(Transpose(B))

\* the block under the canonical key, turned the way idx asks for it
StoredAs(m, idx) ==
    LET X == AsType(Fetch(CanonicalKey(m, idx)), m.dtype)
    IN IF SymmetrizeIdx(idx) # idx THEN Transpose(X) ELSE X

C19_GetMissingOrStored ==
    [][(matrix.cls = "BigMatrix" /\ last'.op = "get") =>
          LET key == ShardIdxToKey(matrix, last'.idx)
          IN /\ store' = store
             /\ (~KeyExists(key) /\ ~matrix.parent_fn) => last'.how = "raised"
             /\ (~KeyExists(key) /\ matrix.parent_fn) =>
                   /\ last'.how = "returned"
                   /\ last'.value = <<ParentFn(matrix, last'.idx)>>
                   /\ key \notin DOMAIN store'
             /\ KeyExists(key) =>
                   /\ last'.how = "returned"
                   /\ last'.value = <<Load(store[key])>>
                   /\ last'.value # <<ParentFn(matrix, last'.idx)>>]_vars

\* with a producer registered and block (1, 1) stored, get_block(0, 0) returned
\* the producer's block and (0, 0) is still absent
C19_Witness ==
    /\ matrix.cls = "BigMatrix"
    /\ matrix.parent_fn
    /\ last.op = "get"
    /\ last.idx = <<0, 0>>
    /\ last.value = <<ParentFn(matrix, <<0, 0>>)>>
    /\ ~KeyExists(ShardIdxToKey(matrix, <<0, 0>>))
    /\ KeyExists(ShardIdxToKey(matrix, <<1, 1>>))

\* the block indices of the matrix that have an object in the bucket
Stored(m) == {idx \in ToSet(BlockIdxs(m)) : ShardIdxToKey(m, idx) \in DOMAIN store}

\* C13: on a BigMatrix whose header is written, block_idxs_exist lists exactly
\* the block indices that have a stored object, block_idxs_not_exist exactly
\* the other block indices; the two are disjoint and together make block_idxs.
C13_ExistPartition ==
    (matrix.cls = "BigMatrix" /\ matrix.write_header /\ last.op = "list") =>
       /\ last.how = "returned"
       /\ ToSet(last.exist) = Stored(matrix)
       /\ Len(last.exist) = Cardinality(Stored(matrix))
       /\ last.not_exist = {idx \in IdxsOf(matrix) : ValidIdx(matrix, idx)} \ Stored(matrix)
       /\ ToSet(last.exist) \cap last.not_exist = {}
       /\ ToSet(last.exist) \cup last.not_exist = ToSet(BlockIdxs(matrix))
       /\ ToSet(BlockIdxs(matrix)) = {idx \in IdxsOf(matrix) : ValidIdx(matrix, idx)}

\* only the remainder block (1, 1) is stored when the blocks are listed
C13_Witness ==
    /\ matrix.cls = "BigMatrix"
    /\ matrix.write_header
    /\ last.op = "list"
    /\ last.exist = <<<<1, 1>>>>
    /\ last.not_exist = {<<0, 0>>, <<0, 1>>, <<1, 0>>}

\* the extent of the ranges a block key encodes
ExtentOfKey(key) ==
    LET b == BlockKeyToBlock(key).value[1] IN [a \in DOMAIN b |-> b[a][2] - b[a][1]]

\* C17 (as claimed): every object stored under a block key, by a put_block on
\* a matrix of any class, has the shape of the real range its key encodes.
C17_StoredShapeIsKeyExtent ==
    \A key \in (DOMAIN store) \ {HeaderKey} :
       store[key].shape = ExtentOfKey(key)

\* C20 (as claimed): after delete_block(idx) returns, no object is stored for
\* idx, and after free() returns no block of the matrix is stored, the header
\* still there if it was written.
C20_DeletedBlockIsGone ==
    /\ (last.op = "delete" /\ last.how = "returned") =>
          ShardIdxToKey(matrix, last.idx) \notin DOMAIN store
    /\ (last.op = "free" /\ last.how = "returned") =>
          /\ Stored(matrix) = {}
          /\ matrix.write_header => HeaderKey \in DOMAIN store

\* ========================================================================
\* Properties of the LRU cache (specification SpecCache)
\* ========================================================================
\* position in the history of the last access (a get that hit, or a put) of
\* a key; 0 if there was none
LastAccess(k) ==
    LET at == {i \in DOMAIN accesses : accesses[i].key = k}
    IN IF at = {} THEN 0 ELSE CHOOSE i \in at : \A j \in at : j <= i

\* the value of the last put of a key
LastValue(k) ==
    LET at == {i \in DOMAIN accesses : accesses[i].key = k /\ accesses[i].op = "put"}
    IN accesses[CHOOSE i \in at : \A j \in at : j <= i].value

\* a reference LRU map of capacity n keeps a key iff fewer than n other keys
\* were accessed since its last access
InReference(k) ==
    /\ LastAccess(k) > 0
    /\ Cardinality({accesses[i].key : i \in (LastAccess(k) + 1)..Len(accesses)}) < max_items

\* C14: the cache is a reference LRU map: it holds exactly the keys a
\* reference LRU of the same capacity holds after the same gets and puts, each
\* with the value last put, ordered by their last access (get or put), and a
\* put of a new key into a full cache evicts the least recently used key and
\* no other.
C14_ReferenceLRU ==
    /\ [](/\ DOMAIN cache = {k \in CacheKeys : InReference(k)}
          /\ \A k \in DOMAIN cache : cache[k] = LastValue(k)
          /\ \A i \in DOMAIN key_order, j \in DOMAIN key_order :
                i < j => LastAccess(key_order[i]) > LastAccess(key_order[j])
          /\ (lastCache.op = "get" /\ lastCache.how = "returned") =>
                lastCache.value = LastValue(lastCache.key))
    /\ [][(/\ lastCache'.op = "put"
           /\ accesses' # accesses
           /\ lastCache'.key \notin DOMAIN cache
           /\ max_items > 0
           /\ Cardinality(DOMAIN cache) = max_items) =>
             \E lru \in DOMAIN cache :
                /\ \A k \in DOMAIN cache : LastAccess(lru) <= LastAccess(k)
                /\ DOMAIN cache' = ((DOMAIN cache) \ {lru}) \cup {lastCache'.key}]_vars

\* capacity 2: A, B and C were put, B was read, D was put: B and D are cached
C14_Witness ==
    /\ max_items = 2
    /\ Len(accesses) = 5
    /\ [i \in 1..5 |-> accesses[i].key] = <<"A", "B", "C", "B", "D">>
    /\ [i \in 1..5 |-> accesses[i].op] = <<"put", "put", "put", "get", "put">>
    /\ DOMAIN cache = {"B", "D"}

\* C15: the cache never holds more than max_items entries, the keys of the
\* cache are exactly the keys listed in key_order, and key_order lists no key
\* twice.
C15_CacheBounded ==
    /\ Cardinality(DOMAIN cache) <= max_items
    /\ DOMAIN cache = {key_order[i] : i \in DOMAIN key_order}
    /\ \A i \in DOMAIN key_order, j \in DOMAIN key_order :
          key_order[i] = key_order[j] => i = j

\* a full cache of the largest capacity from which a key has been evicted
C15_Witness ==
    /\ max_items = MaxItems
    /\ Len(key_order) = max_items
    /\ \E i \in DOMAIN accesses : accesses[i].key \notin DOMAIN cache

\* ========================================================================
\* Properties of the storage keys (specification SpecKey)
\* ========================================================================
\* C16: the key of a block is a function of the matrix and the block index
\* alone (computing it again gives the same key), and no other valid block
\* index of the matrix has the key of a valid block index.
C16_KeyInjective ==
    last.op = "key" =>
       /\ ShardIdxToKey(matrix, last.idx) = last.key
       /\ ValidIdx(matrix, last.idx) =>
             \A idx \in IdxsOf(matrix) :
                (ValidIdx(matrix, idx) /\ idx # last.idx) =>
                   ShardIdxToKey(matrix, idx) # last.key

\* the key of the remainder block (5, 2) of an 11 x 11 matrix in shards of
\* 2 x 5: "p/k/10_11_2_10_11_5_"
C16_Witness ==
    /\ last.op = "key"
    /\ matrix.shape = <<11, 11>>
    /\ matrix.shard_sizes = <<2, 5>>
    /\ last.idx = <<5, 2>>
    /\ last.key = key_base \o <<"/", "1", "0", "_", "1", "1", "_", "2", "_",
                                "1", "0", "_", "1", "1", "_", "5", "_">>

\* ========================================================================
\* Properties of the views (specification SpecView)

\* the view indices of matrix.T that name a block: the block range of the
\* matrix with the axes exchanged
ValidTransposedIdx(m, idx) ==
    /\ idx[1] \in 0..(AxisLens(m)[2] - 1)
    /\ idx[2] \in 0..(AxisLens(m)[1] - 1)

\* C11: for a BigMatrix that is not symmetric and a valid view index (i, j) of
\* matrix.T, matrix.T.get_block(i, j) ends as matrix.get_block(j, i) does and
\* returns the transpose of what that returns, and matrix.T.put_block(B, i, j)
\* ends as matrix.put_block(B.T, j, i) does: when it returns, the object under
\* the key of parent block (j, i) is the transpose of B and nothing else in the
\* bucket has changed.
C11_TransposedViewRoundTrip ==
    [][(/\ last'.op \in {"vget", "vput"}
        /\ matrix.cls = "BigMatrix"
        /\ last'.view = TransposeView(matrix)
        /\ ValidTransposedIdx(matrix, last'.idx))
       => LET i == last'.idx[1]
              j == last'.idx[2]
              got == BigMatrixGetBlock(matrix, <<j, i>>)
              key == ShardIdxToKey(matrix, <<j, i>>)
          IN /\ last'.parent_idx = <<<<j, i>>>>
             /\ last'.op = "vget" =>
                  /\ last'.how = got.how
                  /\ got.how = "returned" => last'.value = <<Transpose(got.value[1])>>
                  /\ store' = store
             /\ last'.op = "vput" =>
                  /\ last'.how = BigMatrixPutBlock(matrix, Transpose(last'.value[1]), <<j, i>>).how
                  /\ last'.how = "returned" =>
                       /\ key \in DOMAIN store'
                       /\ BlockEq(Load(store'[key]), Transpose(last'.value[1]))
                       /\ \A k \in DOMAIN store' \ {key} :
                             k \in DOMAIN store /\ store'[k] = store[k]
                       /\ DOMAIN store \subseteq DOMAIN store'
                  /\ last'.how = "raised" => store' = store]_vars

\* matrix.T has returned the transpose of a stored block that is not square,
\* and has stored one
C11_Witness ==
    /\ matrix.cls = "BigMatrix"
    /\ last.op = "vget"
    /\ last.view = TransposeView(matrix)
    /\ last.idx = <<0, 1>>
    /\ last.how = "returned"
    /\ Shape(last.value[1]) = <<2, 1>>
    /\ ShardIdxToKey(matrix, <<1, 0>>) \in DOMAIN store

\* the slices of a view lie within the block range of the parent
WithinBlockRange(m, v) ==
    \A a \in Axes :
       /\ 0 <= v.parent_slices[a].start
       /\ v.parent_slices[a].start <= v.parent_slices[a].stop
       /\ v.parent_slices[a].stop <= AxisLens(m)[a]

\* `ceil((stop - start) / step)` of the slice of an axis
SliceLen(v, a) ==
    CeilDiv(v.parent_slices[a].stop - v.parent_slices[a].start, v.parent_slices[a].step)

\* C12 (as claimed): for a view built by submatrix within the block range of
\* the parent, block_idxs of the view answers with ceil((stop - start) / step)
\* indices along each axis, and get_block(k, ...) on the view ends as
\* get_block(start + k * step, ...) on the parent does, with the same block.
C12_SubmatrixBlockIdxs ==
    (/\ last.op \in {"vlist", "vget"}
     /\ ~last.view.transposed
     /\ WithinBlockRange(matrix, last.view))
    => /\ last.op = "vlist" =>
            /\ last.how = "returned"
            /\ \A a \in Axes :
                 Cardinality({x[a] : x \in ToSet(last.value[1])}) = SliceLen(last.view, a)
       /\ (last.op = "vget" /\ \A a \in Axes : last.idx[a] < SliceLen(last.view, a)) =>
            [how |-> last.how, value |-> last.value]
               \in ParentGetBlock(matrix,
                      [a \in Axes |-> last.view.parent_slices[a].start
                                       + last.idx[a] * last.view.parent_slices[a].step])

\* C18 (as claimed): get_block, put_block and delete_block of a view built by
\* submatrix either fail before the parent is called, or call the parent with
\* a block index inside [0, ceil(shape[i] / shard_sizes[i])) on every axis.
C18_ParentIdxInRange ==
    (last.op \in {"vget", "vput", "vdelete"} /\ ~last.view.transposed)
    => \/ last.parent_idx = <<>> /\ last.how = "raised"
       \/ /\ last.parent_idx # <<>>
          /\ \A a \in Axes : last.parent_idx[1][a] \in 0..(AxisLens(matrix)[a] - 1)

\* ========================================================================
\* Further properties of the job runner (specification Spec)
\* ========================================================================
\* the run() of a worker raised: its record ends with the EXCEPTION report
RunHasRaised(w) ==
    /\ trace[w] # <<>>
    /\ IsPost(Last(trace[w]))
    /\ Last(trace[w]).ec = EC_EXCEPTION

\* C21: an exception escaping run() ends the worker that ran it and only
\* that one: the worker is never started again and takes no further message,
\* the step in which it ends changes nothing of the other workers, and while
\* the loop runs another worker can still wake up and ask the queues.
C21_FailureEndsOnlyThatWorker ==
    /\ [](\A w \in Workers : RunHasRaised(w) => wpc[w] = "dead")
    /\ [][\A w \in Workers :
            wpc[w] = "dead" =>
               /\ wpc'[w] = "dead"
               /\ wh'[w] = wh[w]
               /\ trace'[w] = trace[w]]_vars
    /\ [][\A w \in Workers :
            (wpc[w] # "dead" /\ wpc'[w] = "dead") =>
               \A o \in Workers \ {w} :
                  /\ wpc'[o] = wpc[o]
                  /\ wh'[o] = wh[o]
                  /\ pcs'[o] = pcs[o]
                  /\ trace'[o] = trace[o]]_vars
    /\ [](\A w \in Workers, o \in Workers :
            (wpc[w] = "dead" /\ o # w /\ LoopRunning) =>
               /\ wpc[o] = "sleep0" => ENABLED Wake(o)
               /\ (wpc[o] = "recv" /\ nextHandle <= MaxDeliveries) =>
                     ENABLED (ReceiveNothing(o) \/ ReceiveMessage(o)))

\* one worker has ended with an exception and another worker has received a
\* message since and is running it
C21_Witness ==
    \E w \in Workers, o \in Workers :
       /\ wpc[w] = "dead"
       /\ wpc[o] = "exec"
       /\ wh[o] > wh[w]

\* C22: a worker holds a message exactly from receiving it until its
\* delete_message has completed (or for ever, once its run() raised), and it
\* receives a message only while it holds none; every lock that is held
\* belongs to the message of exactly one worker, so no more messages are in
\* flight in the process than there are workers.
C22_OneMessageAtATime ==
    /\ [](\A w \in Workers : wh[w] # 0 <=> wpc[w] \in {"exec", "del", "dead"})
    /\ [][\A w \in Workers :
            (wh'[w] # wh[w] /\ wh'[w] # 0) =>
               /\ wh[w] = 0
               /\ wpc[w] = "recv"
               /\ wpc'[w] = "exec"]_vars
    /\ [](\A h \in Handles :
            lock[h] = "locked" => Cardinality({w \in Workers : wh[w] = h}) = 1)
    /\ [](Cardinality({h \in Handles : lock[h] = "locked"}) <= Cardinality(Workers))

\* a worker runs its second message, having deleted the first
C22_Witness ==
    \E w \in Workers, m \in Msgs :
       /\ deletedBy[m] = w
       /\ wpc[w] = "exec"
       /\ Held(w) # m

\* C23 (as claimed): once the worker has released the lock of a message, no
\* extension call of the renewer bound to that lock is made any more.
C23_NoExtensionAfterRelease ==
    [][\A h \in Handles :
         lock[h] = "released" => ~(rst[h] = "call" /\ rst'[h] # "call")]_vars

\* C23 (amended): once the worker has released the lock of a message, the
\* renewer bound to that lock starts no further round: a lock check made after
\* the release ends the renewer, which stays ended, and the only extension
\* call still made is one whose lock check came before the release; that call
\* may reach the queue after the release, and after the delete.
C23_NoNewRoundAfterRelease ==
    [][\A h \in Handles :
         lock[h] = "released" =>
            /\ lock'[h] = "released"
            /\ rst[h] = "check" => rst'[h] \in {"check", "done"}
            /\ rst[h] # "call" => rst'[h] # "call"
            /\ rst[h] = "sleep" => rst'[h] \in {"sleep", "check"}
            /\ rst[h] = "done" => rst'[h] = "done"]_vars

\* the lock was released and the message deleted while an extension call that
\* had passed its lock check was still to be made
C23_Witness ==
    \E h \in Handles :
       /\ lock[h] = "released"
       /\ rst[h] = "call"
       /\ msgState[hMsg[h]] = "deleted"
       /\ curHandle[hMsg[h]] = h

LowestQueue == CHOOSE q \in {queue_urls[i] : i \in DOMAIN queue_urls} :
                  \A i \in DOMAIN queue_urls : Priority(q) <= Priority(queue_urls[i])

\* the messages a step hands out
Delivered == {m \in Msgs : msgState[m] = "visible" /\ msgState'[m] = "inflight"}

\* a worker commits to the queue it asked: the one message the request
\* returned is of that queue, and the cycle asks no further queue
CommitsToQueueAsked(w) ==
    (wpc[w] = "recv" /\ wpc'[w] = "exec") =>
       /\ Cardinality(Delivered) = 1
       /\ \A m \in Delivered : MsgQueue(m) = PollOrder[wqi[w]] /\ hMsg'[wh'[w]] = m
       /\ wqi'[w] = wqi[w]

\* C24 (as claimed): a poll cycle asks the queue of the lowest priority
\* first and goes on to the next higher one when a queue returns nothing; it
\* asks for one message and commits to the first queue that returns one.
C24_PollsLowestToHighest ==
    [][\A w \in Workers :
         /\ (wpc[w] = "sleep0" /\ wpc'[w] = "recv") => PollOrder[wqi'[w]] = LowestQueue
         /\ (wpc[w] = "recv" /\ wpc'[w] = "recv" /\ wqi'[w] # wqi[w]) =>
               /\ VisibleIn(PollOrder[wqi[w]]) = {}
               /\ Priority(PollOrder[wqi'[w]]) = Priority(PollOrder[wqi[w]]) + 1
         /\ CommitsToQueueAsked(w)]_vars

\* C24 (amended): a poll cycle asks the queue of the highest priority first
\* and goes on to the next lower one when a queue returns nothing; it asks
\* for one message and commits to the first queue that returns one, asking no
\* further queue in that cycle.
C24_PollsHighestToLowest ==
    [][\A w \in Workers :
         /\ (wpc[w] = "sleep0" /\ wpc'[w] = "recv") => PollOrder[wqi'[w]] = HighestQueue
         /\ (wpc[w] = "recv" /\ wpc'[w] = "recv" /\ wqi'[w] # wqi[w]) =>
               /\ VisibleIn(PollOrder[wqi[w]]) = {}
               /\ Priority(PollOrder[wqi'[w]]) = Priority(PollOrder[wqi[w]]) - 1
         /\ CommitsToQueueAsked(w)]_vars

\* the highest queue returned nothing and the worker is asking the lowest,
\* which has a message
C24_Witness ==
    \E w \in Workers :
       /\ wpc[w] = "recv"
       /\ polledEmpty[w] = {HighestQueue}
       /\ PollOrder[wqi[w]] = LowestQueue
       /\ VisibleIn(LowestQueue) # {}

\* C25: an error of an extension call ends the renewer that made it and
\* touches nothing else: the worker, its run(), the lock and the message are
\* as they were; the renewer stays ended; and the worker goes on, its
\* instructions can still return and its delete_message can still be made.
C25_RenewalErrorStaysLocal ==
    /\ [][\A h \in Handles :
            (~extFailed[h] /\ extFailed'[h]) =>
               /\ rst'[h] = "done"
               /\ UNCHANGED <<wpc, wh, pcs, pci, ii, trace, lock, msgState,
                              lease, deletedBy>>]_vars
    /\ [](\A h \in Handles : extFailed[h] => rst[h] = "done")
    /\ [](\A w \in Workers :
            (LoopRunning /\ wh[w] # 0 /\ extFailed[wh[w]]) =>
               /\ wpc[w] = "exec" => ENABLED (InstrReturns(w) \/ BlockDone(w))
               /\ wpc[w] = "del" => /\ lock[wh[w]] = "released"
                                    /\ ENABLED DeleteMessage(w))

\* an extension call failed, the lease ran out during the run, and the
\* worker has released the lock and is about to delete the message
C25_Witness ==
    \E w \in Workers :
       /\ wpc[w] = "del"
       /\ extFailed[wh[w]]
       /\ msgState[Held(w)] = "visible"

\* the instructions a run() has executed, as far as its record goes
Executed(w) == {<<trace[w][k].pc, trace[w][k].i>> :
                   k \in {j \in DOMAIN trace[w] : IsInstr(trace[w][j])}}

\* the instructions some worker is awaiting right now
Awaited == {<<pcs[w][pci[w]], ii[w]>> : w \in {x \in Workers : wpc[x] = "exec"}}

\* C26 (as claimed): when run() has finished, by returning or by raising,
\* every instruction it executed and no worker is awaiting has its executor
\* and its cache set back to None.
C26_RefsReleasedAfterRun ==
    \A w \in Workers :
       wpc[w] \in {"del", "dead"} =>
          \A x \in Executed(w) \ Awaited : instr_refs[x] = NoRefs

\* how often pre_op, and how often post_op, was called for pc in a record
PreOpCalls(tr, pc) == Cardinality({k \in DOMAIN tr : IsPre(tr[k]) /\ tr[k].pc = pc})
PostOpCalls(tr, pc) == Cardinality({k \in DOMAIN tr : IsPost(tr[k]) /\ tr[k].pc = pc})

\* C27 (as claimed): for every counter run() processes, pre_op is called
\* once, right before the first instruction of the block, and post_op is
\* called exactly once, with one outcome, also when post_op itself raises:
\* post_op is never called more often than pre_op, and as often once run()
\* has finished.
C27_OnePreOpOnePostOp ==
    \A w \in Workers :
       /\ \A k \in DOMAIN trace[w] :
             (IsInstr(trace[w][k]) /\ trace[w][k].i = 1) =>
                k > 1 /\ trace[w][k - 1] = PreOp(trace[w][k].pc)
       /\ \A pc \in PCs :
             /\ PostOpCalls(trace[w], pc) <= PreOpCalls(trace[w], pc)
             /\ wpc[w] \in {"del", "dead"} =>
                   PostOpCalls(trace[w], pc) = PreOpCalls(trace[w], pc)

\* ========================================================================
\* Properties of the job runner under fair scheduling (specification SpecFair)
\* ========================================================================
\* C28: once program_status() answers something other than RUNNING, the
\* watchdog eventually stops the loop and lambdapack_run returns; as long as
\* the status is RUNNING the loop is not stopped, whatever has become of the
\* workers.
C28_WatchdogStopsTheLoop ==
    /\ (status # EC_RUNNING) ~> loopStopped
    /\ [](status = EC_RUNNING => ~loopStopped)
    /\ [][status' = EC_RUNNING => ~loopStopped']_vars

\* every worker has ended with an exception, the program is still running and
\* so is the loop
C28_Witness ==
    /\ \A w \in Workers : wpc[w] = "dead"
    /\ status = EC_RUNNING
    /\ ~loopStopped

\* ========================================================================
\* Properties of _symmetrize_idx (specification SpecSymmetrize)
\* ========================================================================
\* C29 (as claimed): _symmetrize_idx returns the index unchanged when its
\* first element is not greater than its last, and the reversed index
\* otherwise.
C29_KeepsNotGreater ==
    last.op = "symmetrize" =>
       last.out = IF last.idx[1] <= last.idx[Len(last.idx)]
                  THEN last.idx ELSE Reversed(last.idx)

\* C29 (amended): _symmetrize_idx returns the index unchanged when its first
\* element is greater than its last, and the reversed index otherwise, so the
\* first element of the result is never less than its last; an index of two
\* axes and its mirror get the same result, and the result is its own
\* canonical form.
C29_KeepsGreater ==
    last.op = "symmetrize" =>
       /\ last.out = IF last.idx[1] > last.idx[Len(last.idx)]
                     THEN last.idx ELSE Reversed(last.idx)
       /\ last.out[1] >= last.out[Len(last.out)]
       /\ Len(last.idx) = 2 => SymmetrizeIdx(<<last.idx[2], last.idx[1]>>) = last.out
       /\ SymmetrizeIdx(last.out) = last.out

\* the index (0, 1) above the diagonal was turned into (1, 0)
C29_Witness ==
    /\ last.op = "symmetrize"
    /\ last.idx = <<0, 1>>
    /\ last.out = <<1, 0>>

\* ========================================================================
\* Further properties of the matrix store (specification SpecMatrix)
\* ========================================================================
\* C30 (as claimed): the real range of a block index past the end of an axis
\* is refused, so get_block, put_block and delete_block at an index outside
\* the block range fail.
C30_OutOfRangeFails ==
    (/\ last.op \in {"get", "put", "delete"}
     /\ ~ValidIdx(matrix, last.idx))
    => /\ last.how = "raised"
       /\ \E a \in Axes :
             BlockIdxToRealIdx(matrix, last.idx)[a][1] >= matrix.shape[a]

\* ========================================================================
\* Further properties of block addressing (specification SpecKey)
\* ========================================================================
\* C31 (as claimed): for every shape and shard sizes, an axis shorter than a
\* shard included, _blocks gives ceil(shape / shard) ranges for the axis that
\* start at 0, follow one another without gap or overlap, none of them empty,
\* and end at the length of the axis, the k-th being the real range of block
\* index k.
C31_BlocksCoverAxis ==
    last.op = "blocks" =>
       LET a == last.axis
           n == CeilDiv(matrix.shape[a], matrix.shard_sizes[a])
       IN /\ last.how = "returned"
          /\ Len(last.value[1]) = n
          /\ last.value[1][1][1] = 0
          /\ last.value[1][n][2] = matrix.shape[a]
          /\ \A k \in 1..n :
                /\ last.value[1][k][1] < last.value[1][k][2]
                /\ k < n => last.value[1][k][2] = last.value[1][k + 1][1]
                /\ last.value[1][k] = BlockIdxToRealIdx(matrix, [x \in Axes |-> k - 1])[a]

\* ========================================================================
\* Properties of guarded puts and of reads (specification SpecStore)
\* ========================================================================
\* C32 (as claimed): a read of a stored object that fails fewer times than the
\* bounded number of attempts and then succeeds returns the object, and a read
\* raises only after the bounded number of attempts has been used up.
C32_TransientFailureRetried ==
    last.op = "fetch" =>
       /\ last.fails <= max_n_tries =>
             /\ last.how = "returned"
             /\ last.value = <<store[last.key]>>
       /\ last.how = "raised" => last.attempts = max_n_tries + 1

\* C33 (as claimed): a put_block with no_overwrite=True of a block of the
\* right shape, on a BigMatrix and on a BigSymmetricMatrix alike, writes the
\* block when no block is stored at the key, succeeds when the stored block is
\* numerically close to the new one, and fails with an assertion error,
\* leaving the stored block as it was, when the stored block differs.
C33_NoOverwriteGuardsTheBlock ==
    (last.op = "put_no_overwrite" /\ last.fits) =>
       /\ last.old = <<>> =>
             /\ last.how = "returned"
             /\ last.key \in DOMAIN store
       /\ (last.old # <<>> /\ last.close) => last.how = "returned"
       /\ (last.old # <<>> /\ ~last.close) =>
             /\ last.how = "raised"
             /\ last.error = "AssertionError"
             /\ store[last.key] = last.old[1]

\* ========================================================================
\* Properties of the shape of a view (specification SpecSubmatrix)
\* ========================================================================
\* the parent blocks a slice selects on one axis: start, start + step, ...
\* below stop
Selected(sl) ==
    {b \in 0..(sl.stop - 1) : b >= sl.start /\ (b - sl.start) % sl.step = 0}

\* the elements of the parent blocks a slice selects on axis a
SelectedExtent(m, sl, a) ==
    LET acc[k \in 0..AxisLens(m)[a]] ==
            IF k = 0 THEN 0
            ELSE acc[k - 1] + (IF (k - 1) \in Selected(sl)
                               THEN CurrentShape(m, [x \in Axes |-> k - 1])[a]
                               ELSE 0)
    IN acc[AxisLens(m)[a]]

\* C34 (as claimed): for every view built with per-axis slices with
\* 0 <= start <= stop <= number of parent blocks and step >= 1, the shape of
\* the view along each axis is the sum of the element extents of the parent
\* blocks the slice selects, an undersized remainder block counted with its
\* true extent, and it is never negative.
C34_ViewShapeIsSelectedExtent ==
    last.op = "submatrix" =>
       \A a \in Axes :
          /\ last.view.shape[a] = SelectedExtent(matrix, last.view.parent_slices[a], a)
          /\ last.view.shape[a] >= 0

====
